---------------------------- MODULE Spec2Model ----------------------------
(***************************************************************************)
(* A model of AdvancedLinesDiffComputer                                    *)
(* (src/vs/editor/common/diff/advancedLinesDiffComputer.ts).               *)
(*                                                                         *)
(* A line is a sequence of one-character strings, a document a sequence of *)
(* lines.  Offsets are 0-based as in the source; TLA+ sequences are        *)
(* 1-based, so element o of a JS array is a[o + 1].                        *)
(***************************************************************************)
EXTENDS Integers, Sequences, FiniteSets, TLC

(***************************************************************************)
(* Bounds of the model.                                                    *)
(***************************************************************************)
MaxLines == 3
MaxLineLen == 2
MaxDocChars == 2

\* Scaled stand-ins for the size thresholds 1700 (line 66) and 500 (line 390):
\* the documents of the model are far smaller, and both kernel branches must
\* be reachable.
SmallFileLimit == 6
SmallSliceLimit == 8

\* Characters are one-character strings.  isWordChar's three code ranges
\* (lines 773-777) are the letters and digits; isSpace's are space and tab.
LowerChars ==
    {"a", "b", "c", "d", "e", "f", "g", "h", "i", "j", "k", "l", "m",
     "n", "o", "p", "q", "r", "s", "t", "u", "v", "w", "x", "y", "z"}
UpperChars ==
    {"A", "B", "C", "D", "E", "F", "G", "H", "I", "J", "K", "L", "M",
     "N", "O", "P", "Q", "R", "S", "T", "U", "V", "W", "X", "Y", "Z"}
DigitChars == {"0", "1", "2", "3", "4", "5", "6", "7", "8", "9"}
WordChars == LowerChars \cup UpperChars \cup DigitChars
SpaceChars == {" ", "\t"}
LF == "\n"
CR == "\r"
\* Stands for the char code -1 that getBoundaryScore passes for "no character".
NoChar == ""
\* The characters the documents of the model are written in.
InputChars == {"a", " "}

(***************************************************************************)
(* Helpers on numbers and sequences.                                       *)
(***************************************************************************)
Min(S) == CHOOSE x \in S : \A y \in S : x <= y
Max(S) == CHOOSE x \in S : \A y \in S : x >= y
MaxOf(a, b) == IF a >= b THEN a ELSE b
MinOf(a, b) == IF a <= b THEN a ELSE b

\* JS Array.prototype.slice(start, end) on 0-based offsets.
Slice(s, start, endExclusive) == SubSeq(s, start + 1, endExclusive)

RECURSIVE Flatten(_)
Flatten(ss) == IF ss = <<>> THEN <<>> ELSE Head(ss) \o Flatten(Tail(ss))

RECURSIVE SumLens(_)
SumLens(ss) == IF ss = <<>> THEN 0 ELSE Len(Head(ss)) + SumLens(Tail(ss))

(***************************************************************************)
(* Geometry primitives (vs/editor/common/core), as the spec's section 3    *)
(* and 4.1 give them.                                                      *)
(***************************************************************************)
OffsetRange(s, e) == [start |-> s, endExclusive |-> e]
OffsetRangeLength(r) == r.endExclusive - r.start
OffsetRangeIsEmpty(r) == r.start = r.endExclusive
OffsetRangeJoin(r1, r2) ==
    OffsetRange(MinOf(r1.start, r2.start), MaxOf(r1.endExclusive, r2.endExclusive))
OffsetRangeContainsRange(r, other) ==
    r.start <= other.start /\ other.endExclusive <= r.endExclusive
OffsetRangeEquals(r1, r2) == r1 = r2
\* intersect: the (possibly empty) common part; undefined (NoRange) when the
\* ranges are apart.
NoRange == [start |-> -1, endExclusive |-> -1]
OffsetRangeIntersect(r1, r2) ==
    LET s == MaxOf(r1.start, r2.start)
        e == MinOf(r1.endExclusive, r2.endExclusive)
    IN  IF s <= e THEN OffsetRange(s, e) ELSE NoRange
\* tryCreate: undefined when start > endExclusive.
OffsetRangeTryCreate(s, e) == IF s > e THEN NoRange ELSE OffsetRange(s, e)
\* `r?.length ?? 0`
LengthOrZero(r) == IF r = NoRange THEN 0 ELSE OffsetRangeLength(r)

LineRange(s, e) == [startLineNumber |-> s, endLineNumberExclusive |-> e]
LineRangeLength(r) == r.endLineNumberExclusive - r.startLineNumber
LineRangeIsEmpty(r) == r.startLineNumber = r.endLineNumberExclusive
LineRangeJoin(r1, r2) ==
    LineRange(MinOf(r1.startLineNumber, r2.startLineNumber),
              MaxOf(r1.endLineNumberExclusive, r2.endLineNumberExclusive))
LineRangeOverlapOrTouch(r1, r2) ==
    /\ r1.startLineNumber <= r2.endLineNumberExclusive
    /\ r2.startLineNumber <= r1.endLineNumberExclusive
LineRangeDelta(r, k) == LineRange(r.startLineNumber + k, r.endLineNumberExclusive + k)
LineRangeToOffsetRange(r) ==
    OffsetRange(r.startLineNumber - 1, r.endLineNumberExclusive - 1)

Position(l, c) == [lineNumber |-> l, column |-> c]
\* Range.fromPositions
RangeFromPositions(p1, p2) ==
    [startLineNumber |-> p1.lineNumber, startColumn |-> p1.column,
     endLineNumber |-> p2.lineNumber, endColumn |-> p2.column]
Range(sl, sc, el, ec) ==
    [startLineNumber |-> sl, startColumn |-> sc, endLineNumber |-> el, endColumn |-> ec]
RangeMapping(o, m) == [originalRange |-> o, modifiedRange |-> m]
SequenceDiff(r1, r2) == [seq1Range |-> r1, seq2Range |-> r2]
SequenceDiffJoin(d1, d2) ==
    SequenceDiff(OffsetRangeJoin(d1.seq1Range, d2.seq1Range),
                 OffsetRangeJoin(d1.seq2Range, d2.seq2Range))
DetailedLineRangeMapping(o, m, inner) ==
    [original |-> o, modified |-> m, innerChanges |-> inner]

(***************************************************************************)
(* Strings: String.prototype.trimStart / trimEnd / trim.                   *)
(***************************************************************************)
LeadingSpaces(line) ==
    LET idx == {i \in 1..Len(line) : line[i] \notin SpaceChars}
    IN  IF idx = {} THEN Len(line) ELSE Min(idx) - 1
trimStart(line) == SubSeq(line, LeadingSpaces(line) + 1, Len(line))
trimEnd(line) ==
    LET idx == {i \in 1..Len(line) : line[i] \notin SpaceChars}
    IN  IF idx = {} THEN <<>> ELSE SubSeq(line, 1, Max(idx))
trim(line) == trimEnd(trimStart(line))


(***************************************************************************)
(* Perfect hashes of the trimmed lines (lines 49-60): a text gets the      *)
(* number of distinct texts seen before its first occurrence, original     *)
(* lines first, then modified lines.                                       *)
(***************************************************************************)
getOrCreateHash(texts, text) ==
    LET first == Min({i \in 1..Len(texts) : texts[i] = text})
    IN  Cardinality({texts[j] : j \in 1..(first - 1)})
TrimmedTexts(originalLines, modifiedLines) ==
    [i \in 1..Len(originalLines) |-> trim(originalLines[i])]
        \o [i \in 1..Len(modifiedLines) |-> trim(modifiedLines[i])]
srcDocLinesOf(originalLines, modifiedLines) ==
    [i \in 1..Len(originalLines) |->
        getOrCreateHash(TrimmedTexts(originalLines, modifiedLines), trim(originalLines[i]))]
tgtDocLinesOf(originalLines, modifiedLines) ==
    [i \in 1..Len(modifiedLines) |->
        getOrCreateHash(TrimmedTexts(originalLines, modifiedLines), trim(modifiedLines[i]))]

(***************************************************************************)
(* LinesSliceCharSequence (lines 621-771).                                 *)
(***************************************************************************)
\* The constructor's first step (lines 633-639): a slice that reaches the end
\* of the document but does not start at its beginning also takes the
\* previous line, fully trimmed.
trimFirstLineFullyOf(lines, lineRange) ==
    lineRange.start > 0 /\ lineRange.endExclusive >= Len(lines)
\* The line range as it is given, without the previous line.
effectiveLineRangeAsGiven(lines, lineRange) == lineRange
effectiveLineRange(lines, lineRange) ==
    IF trimFirstLineFullyOf(lines, lineRange)
    THEN OffsetRange(lineRange.start - 1, lineRange.endExclusive)
    ELSE lineRange

\* What line i (0-based) contributes (lines 643-653): its text and the
\* offset recorded in additionalOffsetByLine.
\* The contribution of a line with no offset recorded for what trimming took
\* from its start.
SliceLineWithoutOffset(lines, i, trimFully, considerWhitespaceChanges) ==
    LET line == lines[i + 1]
    IN  IF trimFully THEN [text |-> <<>>, offset |-> Len(line)]
        ELSE IF ~considerWhitespaceChanges
        THEN [text |-> trimEnd(trimStart(line)), offset |-> 0]
        ELSE [text |-> line, offset |-> 0]
SliceLine(lines, i, trimFully, considerWhitespaceChanges) ==
    LET line == lines[i + 1]
    IN  IF trimFully THEN [text |-> <<>>, offset |-> Len(line)]
        ELSE IF ~considerWhitespaceChanges
        THEN [text |-> trimEnd(trimStart(line)),
              offset |-> Len(line) - Len(trimStart(line))]
        ELSE [text |-> line, offset |-> 0]

\* The constructor's loop (lines 641-668), from line i on; acc holds the
\* three arrays built so far.
RECURSIVE SliceLoop(_, _, _, _, _, _)
SliceLoop(lines, i, endExclusive, trimFully, considerWhitespaceChanges, acc) ==
    IF i >= endExclusive
    THEN [acc EXCEPT !.additionalOffsetByLine = Append(@, 0)]
    ELSE LET sl == SliceLine(lines, i, trimFully, considerWhitespaceChanges)
             withLine == acc.elements \o sl.text
             hasLF == i < Len(lines) - 1
             elems == IF hasLF THEN Append(withLine, LF) ELSE withLine
         IN  SliceLoop(lines, i + 1, endExclusive, FALSE, considerWhitespaceChanges,
                [elements |-> elems,
                 firstCharOffsetByLine |->
                    IF hasLF THEN Append(acc.firstCharOffsetByLine, Len(elems))
                    ELSE acc.firstCharOffsetByLine,
                 additionalOffsetByLine |-> Append(acc.additionalOffsetByLine, sl.offset)])

LinesSliceCharSequence(lines, lineRange, considerWhitespaceChanges) ==
    LET r == effectiveLineRange(lines, lineRange)
        built == SliceLoop(lines, r.start, r.endExclusive,
                           trimFirstLineFullyOf(lines, lineRange),
                           considerWhitespaceChanges,
                           [elements |-> <<>>, firstCharOffsetByLine |-> <<0>>,
                            additionalOffsetByLine |-> <<>>])
    IN  [elements |-> built.elements,
         firstCharOffsetByLine |-> built.firstCharOffsetByLine,
         additionalOffsetByLine |-> built.additionalOffsetByLine,
         lineRange |-> r]

\* findLastIdxMonotonous(firstCharOffsetByLine, value => value <= offset)
findLastIdxMonotonous(arr, offset) ==
    LET idx == {i \in 0..(Len(arr) - 1) : arr[i + 1] <= offset}
    IN  IF idx = {} THEN -1 ELSE Max(idx)

translateOffset(slice, offset) ==
    IF OffsetRangeIsEmpty(slice.lineRange)
    THEN Position(slice.lineRange.start + 1, 1)
    ELSE LET i == findLastIdxMonotonous(slice.firstCharOffsetByLine, offset)
         IN  Position(slice.lineRange.start + i + 1,
                      offset - slice.firstCharOffsetByLine[i + 1]
                          + slice.additionalOffsetByLine[i + 1] + 1)

translateRange(slice, range) ==
    RangeFromPositions(translateOffset(slice, range.start),
                       translateOffset(slice, range.endExclusive))

isWordChar(c) == c \in WordChars

\* findWordContaining (lines 734-756); NoRange stands for undefined.
findWordContaining(slice, offset) ==
    IF offset < 0 \/ offset >= Len(slice.elements) THEN NoRange
    ELSE IF ~isWordChar(slice.elements[offset + 1]) THEN NoRange
    ELSE LET n == Len(slice.elements)
             start == Min({s \in 0..offset :
                            \A k \in s..offset : isWordChar(slice.elements[k + 1])})
             end == Max({e \in (offset + 1)..n :
                            \A k \in offset..(e - 1) : isWordChar(slice.elements[k + 1])})
         IN  OffsetRange(start, end)

\* getCategory (lines 805-823) and the score table (lines 790-799).
getCategory(c) ==
    IF c = LF THEN "LineBreakLF"
    ELSE IF c = CR THEN "LineBreakCR"
    ELSE IF c \in SpaceChars THEN "Space"
    ELSE IF c \in LowerChars THEN "WordLower"
    ELSE IF c \in UpperChars THEN "WordUpper"
    ELSE IF c \in DigitChars THEN "WordNumber"
    ELSE IF c = NoChar THEN "End"
    ELSE "Other"
getCategoryBoundaryScore(category) ==
    CASE category \in {"WordLower", "WordUpper", "WordNumber"} -> 0
      [] category \in {"End", "LineBreakCR", "LineBreakLF"} -> 10
      [] category = "Other" -> 2
      [] category = "Space" -> 3

\* LinesSliceCharSequence.getBoundaryScore (lines 691-715).
getBoundaryScore(elements, length) ==
    LET prevCategory == getCategory(IF length > 0 THEN elements[length] ELSE NoChar)
        nextCategory ==
            getCategory(IF length < Len(elements) THEN elements[length + 1] ELSE NoChar)
    IN  IF prevCategory = "LineBreakCR" /\ nextCategory = "LineBreakLF" THEN 0
        ELSE (IF prevCategory # nextCategory
              THEN 10 + (IF nextCategory = "WordUpper" THEN 1 ELSE 0)
              ELSE 0)
             + getCategoryBoundaryScore(prevCategory)
             + getCategoryBoundaryScore(nextCategory)

\* The slice as an ISequence: its elements, what isStronglyEqual compares
\* (line 762-764) and its boundary scores.
CharSequenceOf(slice) ==
    [elements |-> slice.elements,
     strong |-> slice.elements,
     boundaryScore |-> [k \in 0..Len(slice.elements) |-> getBoundaryScore(slice.elements, k)]]

(***************************************************************************)
(* LineSequence (lines 584-611).                                           *)
(***************************************************************************)
\* Lines 613-619.
getIndentation(str) == LeadingSpaces(str)
\* Lines 598-602.
LineSequenceGetBoundaryScore(lines, length) ==
    LET indentationBefore == IF length = 0 THEN 0 ELSE getIndentation(lines[length])
        indentationAfter == IF length = Len(lines) THEN 0 ELSE getIndentation(lines[length + 1])
    IN  1000 - (indentationBefore + indentationAfter)
\* isStronglyEqual compares the untrimmed lines (lines 608-610).
LineSequence(trimmedHash, lines) ==
    [elements |-> trimmedHash,
     strong |-> lines,
     boundaryScore |-> [k \in 0..Len(lines) |-> LineSequenceGetBoundaryScore(lines, k)]]

(***************************************************************************)
(* The diff kernels and the post-processors of joinSequenceDiffs are not   *)
(* part of the file; they are modelled from the spec's contract            *)
(* (sections 1, 4.4, 5, 6).  compute(seq1, seq2, timeout, equalityScore?)  *)
(* returns SequenceDiffs, ordered and apart on both sequences, outside of  *)
(* which the two sequences agree element for element, and a hitTimeout     *)
(* flag.  Both kernels minimise the cost of the diff: of all valid diffs   *)
(* they return one whose aligned elements have the greatest total score    *)
(* (score 1 for every aligned pair when no equalityScore is given).  Every *)
(* diff of greatest score is a possible outcome.                           *)
(***************************************************************************)
CommonPrefixLen(s1, s2, i, j) ==
    Max({k \in 0..MinOf(Len(s1) - i, Len(s2) - j) :
            \A m \in 1..k : s1[i + m] = s2[j + m]})
SuffixEqual(s1, s2, i, j) ==
    Len(s1) - i = Len(s2) - j /\ CommonPrefixLen(s1, s2, i, j) = Len(s1) - i
TightHunk(s1, s2, a1, e1, a2, e2) ==
    /\ a1 < e1 \/ a2 < e2
    /\ (a1 < e1 /\ a2 < e2) => (s1[a1 + 1] # s2[a2 + 1] /\ s1[e1] # s2[e2])

\* Score 1 for every pair: what a kernel uses when it is given no
\* equalityScore.
UnitScores(s1, s2) == [a \in 1..Len(s1) |-> [b \in 1..Len(s2) |-> 1]]

\* Row i of the table of greatest scores, from row i + 1: best[i + 1][j + 1]
\* is the greatest total score of an alignment of s1[i..] with s2[j..].  The
\* element s1[i] stays unaligned, or is aligned with an equal s2[d - 1].
BestScoreRow(s1, s2, scores, i, next) ==
    <<>> \o [c \in 1..(Len(s2) + 1) |->
               MaxOf(next[c],
                     Max({0} \cup {scores[i + 1][d] + next[d + 1] :
                                     d \in {e \in c..Len(s2) : s1[i + 1] = s2[e]}}))]

\* Rows i..Len(s1) of that table, `below` being the rows under row i.
RECURSIVE BestScoreRows(_, _, _, _, _)
BestScoreRows(s1, s2, scores, i, below) ==
    IF i < 0 THEN below
    ELSE LET row == BestScoreRow(s1, s2, scores, i, below[1])
         IN  IF Len(row) = 0 THEN <<>>
             ELSE BestScoreRows(s1, s2, scores, i - 1, <<row>> \o below)

RECURSIVE SumSeq(_)
SumSeq(q) == IF q = <<>> THEN 0 ELSE Head(q) + SumSeq(Tail(q))

\* The score of the k pairs from (i, j) on.
RunScore(scores, i, j, k) == SumSeq([m \in 1..k |-> scores[i + m][j + m]])

\* All diffs of s1[i..] against s2[j..] of total score `target` whose first
\* hunk comes after at least minEq equal elements and in which no hunk begins
\* or ends with a pair of equal elements.
RECURSIVE DiffsFrom(_, _, _, _, _, _, _, _)
DiffsFrom(s1, s2, scores, best, i, j, minEq, target) ==
    (IF SuffixEqual(s1, s2, i, j) /\ RunScore(scores, i, j, Len(s1) - i) = target
     THEN {<<>>} ELSE {})
    \cup UNION {
        UNION {
            {<<SequenceDiff(OffsetRange(i + k, e[1]), OffsetRange(j + k, e[2]))>> \o r :
                r \in DiffsFrom(s1, s2, scores, best, e[1], e[2], 1,
                                best[e[1] + 1][e[2] + 1])} :
            e \in {x \in ((i + k)..Len(s1)) \X ((j + k)..Len(s2)) :
                     /\ RunScore(scores, i, j, k) + best[x[1] + 1][x[2] + 1] = target
                     /\ TightHunk(s1, s2, i + k, x[1], j + k, x[2])} } :
        k \in minEq..CommonPrefixLen(s1, s2, i, j) }

\* The diffs whose aligned pairs have the greatest total score.
CostMinimisingDiffs(s1, s2, scores) ==
    LET best == BestScoreRows(s1, s2, scores, Len(s1) - 1,
                              <<[j \in 1..(Len(s2) + 1) |-> 0]>>)
    IN  DiffsFrom(s1, s2, scores, best, 0, 0, 0, best[1][1])

\* SequenceDiffResult.trivialTimedOut: the whole of one sequence against the
\* whole of the other.
TrivialDiff(s1, s2) == <<SequenceDiff(OffsetRange(0, Len(s1)), OffsetRange(0, Len(s2)))>>

\* DynamicProgrammingDiffing.compute(seq1, seq2, timeout, equalityScore): the
\* outcomes when the timeout stays valid throughout (stillValid) and when it
\* does not.
DynamicProgrammingDiffing(s1, s2, stillValid, equalityScore) ==
    IF stillValid
    THEN {[diffs |-> d, hitTimeout |-> FALSE] : d \in CostMinimisingDiffs(s1, s2, equalityScore)}
    ELSE {[diffs |-> TrivialDiff(s1, s2), hitTimeout |-> TRUE]}

\* MyersDiffAlgorithm.compute(seq1, seq2, timeout): a shortest edit script.
MyersDiffAlgorithm(s1, s2, stillValid) ==
    IF stillValid
    THEN {[diffs |-> d, hitTimeout |-> FALSE] :
            d \in CostMinimisingDiffs(s1, s2, UnitScores(s1, s2))}
    ELSE {[diffs |-> TrivialDiff(s1, s2), hitTimeout |-> TRUE]}

(***************************************************************************)
(* The post-processors (spec section 4.4), over ISequences given as        *)
(* records of elements, strong (what isStronglyEqual compares) and         *)
(* boundaryScore.  optimize shifts the hunks that only insert or only      *)
(* delete along the unchanged elements around them: a hunk that can be     *)
(* shifted until it touches its neighbour is joined with it; any other     *)
(* goes where the sum of the boundary scores at its edges is greatest, the *)
(* earliest such place.  smoothen, removeRandomMatches and                 *)
(* removeRandomLineMatches join neighbouring hunks over the unchanged run  *)
(* between them; which runs they take for small enough is left open.       *)
(***************************************************************************)
SequenceDiffDelta(d, k) ==
    SequenceDiff(OffsetRange(d.seq1Range.start + k, d.seq1Range.endExclusive + k),
                 OffsetRange(d.seq2Range.start + k, d.seq2Range.endExclusive + k))
SequenceDiffReverse(d) == SequenceDiff(d.seq2Range, d.seq1Range)
isPureHunk(d) == OffsetRangeIsEmpty(d.seq1Range) \/ OffsetRangeIsEmpty(d.seq2Range)

\* Shifting d by k to the left (by k + 1 to the right) leaves the same two
\* sequences of elements.
canShiftLeft(s1, s2, d, k) ==
    /\ s1[d.seq1Range.start - k + 1] = s1[d.seq1Range.endExclusive - k + 1]
    /\ s2[d.seq2Range.start - k + 1] = s2[d.seq2Range.endExclusive - k + 1]
canShiftRight(s1, s2, d, k) ==
    /\ s1[d.seq1Range.start + k + 1] = s1[d.seq1Range.endExclusive + k + 1]
    /\ s2[d.seq2Range.start + k + 1] = s2[d.seq2Range.endExclusive + k + 1]
\* How far d can be shifted, at most `length`.
maxShiftLeft(s1, s2, d, length) ==
    Max({k \in 0..length : \A m \in 1..k : canShiftLeft(s1, s2, d, m)})
maxShiftRight(s1, s2, d, length) ==
    Max({k \in 0..length : \A m \in 0..(k - 1) : canShiftRight(s1, s2, d, m)})

\* Move the hunks to the left as far as possible and join those that reach
\* the hunk before them.
RECURSIVE joinToTheLeft(_, _, _, _)
joinToTheLeft(s1, s2, diffs, result) ==
    IF diffs = <<>> THEN result
    ELSE LET cur == Head(diffs)
             prev == result[Len(result)]
             length == cur.seq1Range.start - prev.seq1Range.endExclusive
             d == maxShiftLeft(s1, s2, cur, length)
         IN  IF ~isPureHunk(cur)
             THEN joinToTheLeft(s1, s2, Tail(diffs), Append(result, cur))
             ELSE IF d = length
             THEN joinToTheLeft(s1, s2, Tail(diffs),
                    [result EXCEPT ![Len(result)] =
                        SequenceDiff(
                          OffsetRange(prev.seq1Range.start, cur.seq1Range.endExclusive - length),
                          OffsetRange(prev.seq2Range.start, cur.seq2Range.endExclusive - length))])
             ELSE joinToTheLeft(s1, s2, Tail(diffs), Append(result, SequenceDiffDelta(cur, -d)))

\* Then to the right, joining those that reach the hunk after them.
RECURSIVE joinToTheRight(_, _, _, _)
joinToTheRight(s1, s2, diffs, result) ==
    IF Len(diffs) <= 1 THEN result \o diffs
    ELSE LET cur == diffs[1]
             next == diffs[2]
             length == next.seq1Range.start - cur.seq1Range.endExclusive
             d == maxShiftRight(s1, s2, cur, length)
         IN  IF ~isPureHunk(cur)
             THEN joinToTheRight(s1, s2, Tail(diffs), Append(result, cur))
             ELSE IF d = length
             THEN joinToTheRight(s1, s2,
                    <<SequenceDiff(
                        OffsetRange(cur.seq1Range.start + length, next.seq1Range.endExclusive),
                        OffsetRange(cur.seq2Range.start + length, next.seq2Range.endExclusive))>>
                    \o SubSeq(diffs, 3, Len(diffs)), result)
             ELSE joinToTheRight(s1, s2, Tail(diffs), Append(result, SequenceDiffDelta(cur, d)))

joinSequenceDiffs(sequence1, sequence2, diffs) ==
    IF diffs = <<>> THEN diffs
    ELSE joinToTheRight(sequence1.elements, sequence2.elements,
             joinToTheLeft(sequence1.elements, sequence2.elements, Tail(diffs), <<Head(diffs)>>),
             <<>>)

\* A hunk that only inserts (its seq1Range is empty) goes to the place
\* within the valid ranges where its boundary scores are greatest.
shiftDiffToBetterPosition(diff, sequence1, sequence2, seq1ValidRange, seq2ValidRange) ==
    LET strong == sequence2.strong
        deltaBefore ==
            Max({k \in 0..Len(strong) : \A m \in 1..k :
                   /\ diff.seq1Range.start - m >= seq1ValidRange.start
                   /\ diff.seq2Range.start - m >= seq2ValidRange.start
                   /\ strong[diff.seq2Range.start - m + 1]
                        = strong[diff.seq2Range.endExclusive - m + 1]})
        deltaAfter ==
            Max({k \in 0..Len(strong) : \A m \in 0..(k - 1) :
                   /\ diff.seq1Range.start + m < seq1ValidRange.endExclusive
                   /\ diff.seq2Range.endExclusive + m < seq2ValidRange.endExclusive
                   /\ strong[diff.seq2Range.start + m + 1]
                        = strong[diff.seq2Range.endExclusive + m + 1]})
        deltas == (-deltaBefore)..deltaAfter
        score(delta) ==
            sequence1.boundaryScore[diff.seq1Range.start + delta]
              + sequence2.boundaryScore[diff.seq2Range.start + delta]
              + sequence2.boundaryScore[diff.seq2Range.endExclusive + delta]
        bestDelta == Min({d \in deltas : \A e \in deltas : score(e) <= score(d)})
    IN  SequenceDiffDelta(diff, bestDelta)

\* One hunk after the other, each kept apart from the (already shifted) hunk
\* before it and from the hunk after it.
RECURSIVE shiftSequenceDiffs(_, _, _, _)
shiftSequenceDiffs(sequence1, sequence2, diffs, result) ==
    IF diffs = <<>> THEN result
    ELSE LET diff == Head(diffs)
             hasPrev == result # <<>>
             hasNext == Len(diffs) > 1
             seq1ValidRange ==
                OffsetRange(IF hasPrev THEN result[Len(result)].seq1Range.endExclusive + 1 ELSE 0,
                            IF hasNext THEN diffs[2].seq1Range.start - 1
                            ELSE Len(sequence1.elements))
             seq2ValidRange ==
                OffsetRange(IF hasPrev THEN result[Len(result)].seq2Range.endExclusive + 1 ELSE 0,
                            IF hasNext THEN diffs[2].seq2Range.start - 1
                            ELSE Len(sequence2.elements))
             shifted ==
                IF OffsetRangeIsEmpty(diff.seq1Range)
                THEN shiftDiffToBetterPosition(diff, sequence1, sequence2,
                                               seq1ValidRange, seq2ValidRange)
                ELSE IF OffsetRangeIsEmpty(diff.seq2Range)
                THEN SequenceDiffReverse(
                       shiftDiffToBetterPosition(SequenceDiffReverse(diff), sequence2, sequence1,
                                                 seq2ValidRange, seq1ValidRange))
                ELSE diff
         IN  shiftSequenceDiffs(sequence1, sequence2, Tail(diffs), Append(result, shifted))

optimizeSequenceDiffs(sequence1, sequence2, diffs) ==
    shiftSequenceDiffs(sequence1, sequence2, joinSequenceDiffs(sequence1, sequence2, diffs), <<>>)

\* Any joining of neighbouring hunks.
RECURSIVE JoinedDiffs(_)
JoinedDiffs(diffs) ==
    IF Len(diffs) <= 1 THEN {diffs}
    ELSE LET rest == JoinedDiffs(Tail(diffs))
         IN  {<<Head(diffs)>> \o r : r \in rest}
             \cup {<<SequenceDiffJoin(Head(diffs), Head(r))>> \o Tail(r) : r \in rest}
smoothenSequenceDiffs(diffs) == JoinedDiffs(diffs)
removeRandomMatches(diffs) == JoinedDiffs(diffs)
removeRandomLineMatches(diffs) == JoinedDiffs(diffs)

(***************************************************************************)
(* mergeSequenceDiffs (lines 488-510).                                     *)
(***************************************************************************)
RECURSIVE mergeSequenceDiffsLoop(_, _, _)
mergeSequenceDiffsLoop(sequenceDiffs1, sequenceDiffs2, result) ==
    IF sequenceDiffs1 = <<>> /\ sequenceDiffs2 = <<>> THEN result
    ELSE LET takeFirst ==
                 /\ sequenceDiffs1 # <<>>
                 /\ \/ sequenceDiffs2 = <<>>
                    \/ Head(sequenceDiffs1).seq1Range.start < Head(sequenceDiffs2).seq1Range.start
             next == IF takeFirst THEN Head(sequenceDiffs1) ELSE Head(sequenceDiffs2)
             rest1 == IF takeFirst THEN Tail(sequenceDiffs1) ELSE sequenceDiffs1
             rest2 == IF takeFirst THEN sequenceDiffs2 ELSE Tail(sequenceDiffs2)
             n == Len(result)
         IN  IF n > 0 /\ result[n].seq1Range.endExclusive >= next.seq1Range.start
             THEN mergeSequenceDiffsLoop(rest1, rest2,
                      [result EXCEPT ![n] = SequenceDiffJoin(result[n], next)])
             ELSE mergeSequenceDiffsLoop(rest1, rest2, Append(result, next))

\* The two lists one after the other, nothing joined.
mergeSequenceDiffsAppended(sequenceDiffs1, sequenceDiffs2) == sequenceDiffs1 \o sequenceDiffs2
mergeSequenceDiffs(sequenceDiffs1, sequenceDiffs2) ==
    mergeSequenceDiffsLoop(sequenceDiffs1, sequenceDiffs2, <<>>)

(***************************************************************************)
(* coverFullWords (lines 417-486).  The state of the loop is the list      *)
(* `additional` and the accumulator lastModifiedWord (NoWord: undefined).  *)
(***************************************************************************)
NoWord == [added |-> 0, deleted |-> 0, count |-> -1, s1Range |-> NoRange, s2Range |-> NoRange]

\* The flush test against an empty remainder of the word.
wordIsCoveredWhenTouched(w) ==
    MaxOf(w.deleted, w.added) + (w.count - 1) > 0
\* The flush test of line 433.
wordIsCovered(w) ==
    MaxOf(w.deleted, w.added) + (w.count - 1) > OffsetRangeLength(w.s1Range) - w.deleted

maybePushWordToAdditional(st) ==
    IF st.lastModifiedWord = NoWord THEN st
    ELSE [additional |->
            IF wordIsCovered(st.lastModifiedWord)
            THEN Append(st.additional,
                        SequenceDiff(st.lastModifiedWord.s1Range, st.lastModifiedWord.s2Range))
            ELSE st.additional,
          lastModifiedWord |-> NoWord]

processWord(st, s, s1Range, s2Range) ==
    LET w == st.lastModifiedWord
        outside == \/ w = NoWord
                   \/ ~OffsetRangeContainsRange(w.s1Range, s1Range)
                   \/ ~OffsetRangeContainsRange(w.s2Range, s2Range)
        extend == /\ w # NoWord
                  /\ ~(/\ w.s1Range.endExclusive < s1Range.start
                       /\ w.s2Range.endExclusive < s2Range.start)
        st1 == IF ~outside THEN st
               ELSE IF extend
               THEN [st EXCEPT !.lastModifiedWord =
                       [added |-> w.added + LengthOrZero(
                            OffsetRangeTryCreate(w.s2Range.endExclusive, s2Range.start)),
                        deleted |-> w.deleted + LengthOrZero(
                            OffsetRangeTryCreate(w.s1Range.endExclusive, s1Range.start)),
                        count |-> w.count,
                        s1Range |-> OffsetRangeJoin(w.s1Range, s1Range),
                        s2Range |-> OffsetRangeJoin(w.s2Range, s2Range)]]
               ELSE [additional |-> maybePushWordToAdditional(st).additional,
                     lastModifiedWord |->
                       [added |-> 0, deleted |-> 0, count |-> 0,
                        s1Range |-> s1Range, s2Range |-> s2Range]]
        changedS1 == OffsetRangeIntersect(s1Range, s.seq1Range)
        changedS2 == OffsetRangeIntersect(s2Range, s.seq2Range)
        w1 == st1.lastModifiedWord
    IN  [st1 EXCEPT !.lastModifiedWord =
            [w1 EXCEPT !.count = @ + 1,
                       !.deleted = @ + LengthOrZero(changedS1),
                       !.added = @ + LengthOrZero(changedS2)]]

\* The body of the loop over sequenceDiffs (lines 464-479).
coverFullWordsStep(sequence1, sequence2, st, s) ==
    LET w1Before == findWordContaining(sequence1, s.seq1Range.start - 1)
        w2Before == findWordContaining(sequence2, s.seq2Range.start - 1)
        w1After == findWordContaining(sequence1, s.seq1Range.endExclusive)
        w2After == findWordContaining(sequence2, s.seq2Range.endExclusive)
    IN  IF /\ w1Before # NoRange /\ w1After # NoRange
           /\ w2Before # NoRange /\ w2After # NoRange
           /\ OffsetRangeEquals(w1Before, w1After) /\ OffsetRangeEquals(w2Before, w2After)
        THEN processWord(st, s, w1Before, w2Before)
        ELSE LET stB == IF w1Before # NoRange /\ w2Before # NoRange
                        THEN processWord(st, s, w1Before, w2Before) ELSE st
             IN  IF w1After # NoRange /\ w2After # NoRange
                 THEN processWord(stB, s, w1After, w2After) ELSE stB

RECURSIVE coverFullWordsLoop(_, _, _, _)
coverFullWordsLoop(sequence1, sequence2, st, diffs) ==
    IF diffs = <<>> THEN st
    ELSE coverFullWordsLoop(sequence1, sequence2,
            coverFullWordsStep(sequence1, sequence2, st, Head(diffs)), Tail(diffs))

\* The additional diffs coverFullWords collects (lines 418-482).
coverFullWordsAdditional(sequence1, sequence2, sequenceDiffs) ==
    maybePushWordToAdditional(
        coverFullWordsLoop(sequence1, sequence2,
            [additional |-> <<>>, lastModifiedWord |-> NoWord], sequenceDiffs)).additional

coverFullWords(sequence1, sequence2, sequenceDiffs) ==
    mergeSequenceDiffs(sequenceDiffs,
        coverFullWordsAdditional(sequence1, sequence2, sequenceDiffs))

(***************************************************************************)
(* refineDiff (lines 386-414): the set of its possible results.            *)
(***************************************************************************)
\* Line 390-392: both branches hand the timeout to the kernel.
refineKernel(slice1, slice2, timeoutValid) ==
    IF Len(slice1.elements) + Len(slice2.elements) < SmallSliceLimit
    THEN DynamicProgrammingDiffing(slice1.elements, slice2.elements, timeoutValid,
                                   UnitScores(slice1.elements, slice2.elements))
    ELSE MyersDiffAlgorithm(slice1.elements, slice2.elements, timeoutValid)

\* Lines 394-398, applied to one kernel result.
refinePostProcess(slice1, slice2, diffs) ==
    UNION {removeRandomMatches(sm) :
             sm \in smoothenSequenceDiffs(
                       coverFullWords(slice1, slice2,
                           optimizeSequenceDiffs(CharSequenceOf(slice1), CharSequenceOf(slice2),
                                                 diffs)))}

refineDiff(originalLines, modifiedLines, diff, timeoutValid, considerWhitespaceChanges) ==
    LET slice1 == LinesSliceCharSequence(originalLines, diff.seq1Range, considerWhitespaceChanges)
        slice2 == LinesSliceCharSequence(modifiedLines, diff.seq2Range, considerWhitespaceChanges)
    IN  UNION {
          {[mappings |-> [k \in 1..Len(ds) |->
                            RangeMapping(translateRange(slice1, ds[k].seq1Range),
                                         translateRange(slice2, ds[k].seq2Range))],
            hitTimeout |-> diffResult.hitTimeout] :
              ds \in refinePostProcess(slice1, slice2, diffResult.diffs)} :
          diffResult \in refineKernel(slice1, slice2, timeoutValid)}

(***************************************************************************)
(* getLineRangeMapping (lines 547-582) and                                 *)
(* lineRangeMappingFromRangeMappings (lines 512-545).                      *)
(***************************************************************************)
getLineRangeMapping(rangeMapping, originalLines, modifiedLines) ==
    LET o == rangeMapping.originalRange
        m == rangeMapping.modifiedRange
        lineEndDelta ==
            IF /\ m.endColumn = 1 /\ o.endColumn = 1
               /\ o.startLineNumber + 0 <= o.endLineNumber
               /\ m.startLineNumber + 0 <= m.endLineNumber
            THEN -1 ELSE 0
        lineStartDelta ==
            IF /\ m.startColumn - 1 >= Len(modifiedLines[m.startLineNumber])
               /\ o.startColumn - 1 >= Len(originalLines[o.startLineNumber])
               /\ o.startLineNumber <= o.endLineNumber + lineEndDelta
               /\ m.startLineNumber <= m.endLineNumber + lineEndDelta
            THEN 1 ELSE 0
    IN  DetailedLineRangeMapping(
            LineRange(o.startLineNumber + lineStartDelta, o.endLineNumber + 1 + lineEndDelta),
            LineRange(m.startLineNumber + lineStartDelta, m.endLineNumber + 1 + lineEndDelta),
            <<rangeMapping>>)

\* groupAdjacentBy with the predicate of lines 516-518: consecutive items
\* stay in one group while each overlaps or touches its predecessor.
shouldBeGrouped(a1, a2) ==
    \/ LineRangeOverlapOrTouch(a1.original, a2.original)
    \/ LineRangeOverlapOrTouch(a1.modified, a2.modified)

RECURSIVE groupAdjacentBy(_, _)
groupAdjacentBy(items, groups) ==
    IF items = <<>> THEN groups
    ELSE LET item == Head(items)
             n == Len(groups)
         IN  IF n > 0 /\ shouldBeGrouped(groups[n][Len(groups[n])], item)
             THEN groupAdjacentBy(Tail(items), [groups EXCEPT ![n] = Append(@, item)])
             ELSE groupAdjacentBy(Tail(items), Append(groups, <<item>>))

lineRangeMappingFromRangeMappings(alignments, originalLines, modifiedLines) ==
    LET mapped == [k \in 1..Len(alignments) |->
                      getLineRangeMapping(alignments[k], originalLines, modifiedLines)]
        groups == groupAdjacentBy(mapped, <<>>)
    IN  [k \in 1..Len(groups) |->
            LET g == groups[k]
                first == g[1]
                last == g[Len(g)]
            IN  DetailedLineRangeMapping(
                    LineRangeJoin(first.original, last.original),
                    LineRangeJoin(first.modified, last.modified),
                    [x \in 1..Len(g) |-> g[x].innerChanges[1]])]

(***************************************************************************)
(* LineRangeSet (vs/editor/common/core/lineRange), as the spec's section   *)
(* 4.1 gives it: a union of line ranges in which touching ranges coalesce. *)
(* It is kept as the set of its line numbers; its ranges are the runs of   *)
(* consecutive line numbers.                                               *)
(***************************************************************************)
LinesOf(r) == r.startLineNumber..(r.endLineNumberExclusive - 1)
LineRangeSetAddRange(set, r) == set \cup LinesOf(r)
LineRangeSetSubtractFrom(set, r) == LinesOf(r) \ set
LineRangeSetGetWithDelta(set, k) == {l + k : l \in set}
LineRangeSetGetIntersection(set, other) == set \cap other
\* The ranges of a set, in ascending order.
RECURSIVE LineRangeSetRanges(_)
LineRangeSetRanges(set) ==
    IF set = {} THEN <<>>
    ELSE LET s == Min(set)
             e == Min({l \in s..(Max(set) + 1) : l \notin set})
         IN  <<LineRange(s, e)>> \o LineRangeSetRanges({l \in set : l >= e})

LineRangeMapping(o, m) == [original |-> o, modified |-> m]
LineRangeMappingJoin(a, b) ==
    LineRangeMapping(LineRangeJoin(a.original, b.original), LineRangeJoin(a.modified, b.modified))
MovedText(lineRangeMapping, mappings) ==
    [lineRangeMapping |-> lineRangeMapping, changes |-> mappings]

\* Array.prototype.sort with compareBy: a stable sort of `items` by the
\* integer keys given alongside.
RECURSIVE InsertByKey(_, _)
InsertByKey(sorted, x) ==
    IF sorted = <<>> THEN <<x>>
    ELSE IF Head(sorted).key <= x.key THEN <<Head(sorted)>> \o InsertByKey(Tail(sorted), x)
    ELSE <<x>> \o sorted
RECURSIVE SortTagged(_)
SortTagged(tagged) ==
    IF tagged = <<>> THEN <<>>
    ELSE InsertByKey(SortTagged(SubSeq(tagged, 1, Len(tagged) - 1)), tagged[Len(tagged)])
SortByKey(items, keys) ==
    LET sorted == SortTagged([i \in 1..Len(items) |-> [key |-> keys[i], item |-> items[i]]])
    IN  [i \in 1..Len(items) |-> sorted[i].item]
\* The indices of a sequence that satisfy a test, in order (Array.filter).
RECURSIVE IndicesWhere(_, _)
IndicesWhere(flags, i) ==
    IF i > Len(flags) THEN <<>>
    ELSE (IF flags[i] THEN <<i>> ELSE <<>>) \o IndicesWhere(flags, i + 1)

(***************************************************************************)
(* LineRangeFragment (lines 839-872): the histogram of the characters of   *)
(* the lines of a range, one line feed counted per line.                   *)
(***************************************************************************)
FragmentChars(range, lines) ==
    Flatten([i \in 1..LineRangeLength(range) |->
                Append(lines[range.startLineNumber + i - 1], LF)])
CountOf(chr, text) == Cardinality({i \in 1..Len(text) : text[i] = chr})
LineRangeFragment(range, lines, source) ==
    LET text == FragmentChars(range, lines)
    IN  [range |-> range,
         source |-> source,
         histogram |-> [chr \in {text[i] : i \in 1..Len(text)} |-> CountOf(chr, text)],
         totalCount |-> Len(text)]
histogramAt(fragment, chr) ==
    IF chr \in DOMAIN fragment.histogram THEN fragment.histogram[chr] ELSE 0
Abs(n) == IF n < 0 THEN -n ELSE n
RECURSIVE SumDifferences(_, _, _)
SumDifferences(chars, f1, f2) ==
    IF chars = {} THEN 0
    ELSE LET chr == CHOOSE x \in chars : TRUE
         IN  Abs(histogramAt(f1, chr) - histogramAt(f2, chr))
               + SumDifferences(chars \ {chr}, f1, f2)
\* computeSimilarity (lines 864-871) returns 1 - sumDifferences / total; the
\* model keeps the two numbers of the quotient.
computeSimilarity(this, other) ==
    [sumDifferences |-> SumDifferences(DOMAIN this.histogram \cup DOMAIN other.histogram,
                                       this, other),
     total |-> this.totalCount + other.totalCount]
\* a > b for two similarities; NoSimilarity stands for the initial -1.
NoSimilarity == [sumDifferences |-> 2, total |-> 1]
similarityGreater(a, b) == a.sumDifferences * b.total < b.sumDifferences * a.total
\* similarity > 0.90
similarityAboveThreshold(a) == 10 * a.sumDifferences < a.total

(***************************************************************************)
(* computeMovesFromSimpleDeletionsToSimpleInsertions (lines 253-294).  A   *)
(* change is known by its index in `changes`.                              *)
(***************************************************************************)
\* Lines 261-263.
simpleDeletions(changes, originalLines) ==
    LET idx == IndicesWhere([i \in 1..Len(changes) |->
                    LineRangeIsEmpty(changes[i].modified)
                      /\ LineRangeLength(changes[i].original) >= 3], 1)
    IN  [k \in 1..Len(idx) |-> LineRangeFragment(changes[idx[k]].original, originalLines, idx[k])]
\* Lines 264-266; the Set keeps the order of insertion.
simpleInsertions(changes, modifiedLines) ==
    LET idx == IndicesWhere([i \in 1..Len(changes) |->
                    LineRangeIsEmpty(changes[i].original)
                      /\ LineRangeLength(changes[i].modified) >= 3], 1)
    IN  [k \in 1..Len(idx) |-> LineRangeFragment(changes[idx[k]].modified, modifiedLines, idx[k])]

\* Lines 271-279: the first insertion of greatest similarity (0 if there is
\* no insertion) and that similarity.
RECURSIVE bestInsertion(_, _, _, _, _)
bestInsertion(deletion, insertions, k, highestSimilarity, best) ==
    IF k > Len(insertions) THEN [highestSimilarity |-> highestSimilarity, best |-> best]
    ELSE LET similarity == computeSimilarity(deletion, insertions[k])
         IN  IF similarityGreater(similarity, highestSimilarity)
             THEN bestInsertion(deletion, insertions, k + 1, similarity, k)
             ELSE bestInsertion(deletion, insertions, k + 1, highestSimilarity, best)

\* The pairing that leaves the accepted insertion among the insertions.
pairDeletionKeepingInsertion(st, deletion) ==
    LET b == bestInsertion(deletion, st.insertions, 1, NoSimilarity, 0)
    IN  IF similarityAboveThreshold(b.highestSimilarity) /\ b.best # 0
        THEN [moves |-> Append(st.moves,
                           LineRangeMapping(deletion.range, st.insertions[b.best].range)),
              insertions |-> st.insertions,
              excludedChanges |-> st.excludedChanges
                                    \cup {deletion.source, st.insertions[b.best].source}]
        ELSE st
\* Lines 271-286 for one deletion; st holds moves, insertions and
\* excludedChanges.
pairDeletion(st, deletion) ==
    LET b == bestInsertion(deletion, st.insertions, 1, NoSimilarity, 0)
    IN  IF similarityAboveThreshold(b.highestSimilarity) /\ b.best # 0
        THEN [moves |-> Append(st.moves,
                           LineRangeMapping(deletion.range, st.insertions[b.best].range)),
              insertions |-> SubSeq(st.insertions, 1, b.best - 1)
                               \o SubSeq(st.insertions, b.best + 1, Len(st.insertions)),
              excludedChanges |-> st.excludedChanges
                                    \cup {deletion.source, st.insertions[b.best].source}]
        ELSE st

(***************************************************************************)
(* computeUnchangedMoves (lines 296-384).                                  *)
(***************************************************************************)
\* Lines 308 and 325: the key of the three lines from line i on.
threeLineKey(hashedLines, i) == <<hashedLines[i], hashedLines[i + 1], hashedLines[i + 2]>>

\* Lines 304-311: the entries of original3LineHashes in the order they are
\* added.
original3LineHashesOf(changes, hashedOriginalLines) ==
    Flatten([c \in 1..Len(changes) |->
        [k \in 1..MaxOf(0, LineRangeLength(changes[c].original) - 2) |->
            LET i == changes[c].original.startLineNumber + k - 1
            IN  [key |-> threeLineKey(hashedOriginalLines, i), range |-> LineRange(i, i + 3)]]])

\* The first of lastMappings, wherever it ends.
extendedLastMappingUnchecked(possibleMappings, lastMappings, range, currentModifiedRange) ==
    IF lastMappings = <<>> THEN 0 ELSE lastMappings[1]
\* Lines 330-339: the first of lastMappings (indices into possibleMappings)
\* that the match extends; 0 if there is none.
extendedLastMapping(possibleMappings, lastMappings, range, currentModifiedRange) ==
    LET ok == {k \in 1..Len(lastMappings) :
                 LET lastMapping == possibleMappings[lastMappings[k]]
                 IN  /\ lastMapping.originalLineRange.endLineNumberExclusive + 1
                          = range.endLineNumberExclusive
                     /\ lastMapping.modifiedLineRange.endLineNumberExclusive + 1
                          = currentModifiedRange.endLineNumberExclusive}
    IN  IF ok = {} THEN 0 ELSE lastMappings[Min(ok)]

\* Lines 329-347: the callback, for the ranges stored under the key in turn;
\* st holds possibleMappings and nextMappings.
RECURSIVE forEachRange(_, _, _, _)
forEachRange(st, ranges, lastMappings, currentModifiedRange) ==
    IF ranges = <<>> THEN st
    ELSE LET range == Head(ranges)
             ext == extendedLastMapping(st.possibleMappings, lastMappings, range,
                                        currentModifiedRange)
             next ==
               IF ext # 0
               THEN [possibleMappings |->
                        [st.possibleMappings EXCEPT ![ext] =
                            [originalLineRange |->
                                LineRange(@.originalLineRange.startLineNumber,
                                          range.endLineNumberExclusive),
                             modifiedLineRange |->
                                LineRange(@.modifiedLineRange.startLineNumber,
                                          currentModifiedRange.endLineNumberExclusive)]],
                     nextMappings |-> Append(st.nextMappings, ext)]
               ELSE [possibleMappings |->
                        Append(st.possibleMappings,
                               [modifiedLineRange |-> currentModifiedRange,
                                originalLineRange |-> range]),
                     nextMappings |-> Append(st.nextMappings, Len(st.possibleMappings) + 1)]
         IN  forEachRange(next, Tail(ranges), lastMappings, currentModifiedRange)

\* Lines 324-349: the windows of one change from line i on.
RECURSIVE scanModifiedWindows(_, _, _, _, _, _)
scanModifiedWindows(possibleMappings, lastMappings, i, change, original3LineHashes, hashedModifiedLines) ==
    IF i >= change.modified.endLineNumberExclusive - 2 THEN possibleMappings
    ELSE LET key == threeLineKey(hashedModifiedLines, i)
             entries == IndicesWhere([e \in 1..Len(original3LineHashes) |->
                                        original3LineHashes[e].key = key], 1)
             st == forEachRange([possibleMappings |-> possibleMappings, nextMappings |-> <<>>],
                                [e \in 1..Len(entries) |-> original3LineHashes[entries[e]].range],
                                lastMappings, LineRange(i, i + 3))
         IN  scanModifiedWindows(st.possibleMappings, st.nextMappings, i + 1, change,
                                 original3LineHashes, hashedModifiedLines)

\* Lines 361-381 from mapping k on; st holds moves, modifiedSet, originalSet.
RECURSIVE pickSections(_, _, _)
pickSections(st, sections, diffOrigToMod) ==
    IF sections = <<>> THEN st
    ELSE LET s == Head(sections)
         IN  IF LineRangeLength(s) < 3 THEN pickSections(st, Tail(sections), diffOrigToMod)
             ELSE pickSections(
                    [moves |-> Append(st.moves,
                                  LineRangeMapping(LineRangeDelta(s, -diffOrigToMod), s)),
                     modifiedSet |-> LineRangeSetAddRange(st.modifiedSet, s),
                     originalSet |-> LineRangeSetAddRange(st.originalSet,
                                                          LineRangeDelta(s, -diffOrigToMod))],
                    Tail(sections), diffOrigToMod)
RECURSIVE pickMappings(_, _)
pickMappings(st, possibleMappings) ==
    IF possibleMappings = <<>> THEN st.moves
    ELSE LET mapping == Head(possibleMappings)
             diffOrigToMod == mapping.modifiedLineRange.startLineNumber
                                - mapping.originalLineRange.startLineNumber
             modifiedSections == LineRangeSetSubtractFrom(st.modifiedSet,
                                                          mapping.modifiedLineRange)
             originalTranslatedSections ==
                LineRangeSetGetWithDelta(
                    LineRangeSetSubtractFrom(st.originalSet, mapping.originalLineRange),
                    diffOrigToMod)
             modifiedIntersectedSections ==
                LineRangeSetGetIntersection(modifiedSections, originalTranslatedSections)
         IN  pickMappings(pickSections(st, LineRangeSetRanges(modifiedIntersectedSections),
                                       diffOrigToMod),
                          Tail(possibleMappings))
\* Every possible mapping becomes a move, whatever the earlier ones took.
movesOfPossibleMappingsUnchecked(possibleMappings) ==
    [k \in 1..Len(possibleMappings) |->
        LineRangeMapping(possibleMappings[k].originalLineRange,
                         possibleMappings[k].modifiedLineRange)]
\* Lines 356-383.
movesOfPossibleMappings(possibleMappings) ==
    pickMappings([moves |-> <<>>, modifiedSet |-> {}, originalSet |-> {}],
                 SortByKey(possibleMappings,
                           [k \in 1..Len(possibleMappings) |->
                              -LineRangeLength(possibleMappings[k].modifiedLineRange)]))

(***************************************************************************)
(* computeMoves (lines 181-251).                                           *)
(***************************************************************************)
\* Line 195, then line 320.
changesForUnchangedMoves(changes, excludedChanges) ==
    LET idx == IndicesWhere([i \in 1..Len(changes) |-> i \notin excludedChanges], 1)
        kept == [k \in 1..Len(idx) |-> changes[idx[k]]]
    IN  kept
sortedByModifiedStart(changes) ==
    SortByKey(changes, [k \in 1..Len(changes) |-> changes[k].modified.startLineNumber])

\* Line 221: the trimmed lines of the range joined by line feeds.
trimmedTextLength(range, lines) ==
    SumLens([i \in 1..LineRangeLength(range) |-> trim(lines[range.startLineNumber + i - 1])])
      + MaxOf(0, LineRangeLength(range) - 1)

\* Lines 208-227 from the move `current` on.
RECURSIVE joinMovesLoop(_, _, _)
joinMovesLoop(joinedMoves, moves, originalLines) ==
    IF moves = <<>> THEN joinedMoves
    ELSE LET last == joinedMoves[Len(joinedMoves)]
             current == Head(moves)
             originalDist == current.original.startLineNumber
                               - last.original.endLineNumberExclusive
             modifiedDist == current.modified.startLineNumber
                               - last.modified.endLineNumberExclusive
             currentMoveAfterLast == originalDist >= 0 /\ modifiedDist >= 0
         IN  IF currentMoveAfterLast /\ originalDist + modifiedDist <= 2
             THEN joinMovesLoop([joinedMoves EXCEPT ![Len(joinedMoves)] =
                                    LineRangeMappingJoin(last, current)],
                                Tail(moves), originalLines)
             ELSE IF trimmedTextLength(current.original, originalLines) <= 10
             THEN joinMovesLoop(joinedMoves, Tail(moves), originalLines)
             ELSE joinMovesLoop(Append(joinedMoves, current), Tail(moves), originalLines)
\* Lines 203-227.
joinMoves(moves, originalLines) ==
    LET sorted == SortByKey(moves, [k \in 1..Len(moves) |-> moves[k].original.startLineNumber])
    IN  IF Len(sorted) = 0 THEN <<>>
        ELSE joinMovesLoop(<<sorted[1]>>, Tail(sorted), originalLines)

\* Lines 231-239.
isRealMove(m, changes) ==
    LET before == {k \in 1..Len(changes) :
                     changes[k].original.endLineNumberExclusive <= m.original.startLineNumber}
        diffBeforeOriginalMove ==
            IF before = {} THEN LineRangeMapping(LineRange(1, 1), LineRange(1, 1))
            ELSE changes[Max(before)]
        modifiedDistToPrevDiff == m.modified.startLineNumber
                                    - diffBeforeOriginalMove.modified.endLineNumberExclusive
        originalDistToPrevDiff == m.original.startLineNumber
                                    - diffBeforeOriginalMove.original.endLineNumberExclusive
    IN  modifiedDistToPrevDiff # originalDistToPrevDiff
filterNonMoves(joinedMoves, changes) ==
    LET idx == IndicesWhere([k \in 1..Len(joinedMoves) |-> isRealMove(joinedMoves[k], changes)], 1)
    IN  [k \in 1..Len(idx) |-> joinedMoves[idx[k]]]

(***************************************************************************)
(* The state of one call of computeDiff.                                   *)
(***************************************************************************)
VARIABLES
    originalLines,      \* the arguments of computeDiff
    modifiedLines,
    options,
    pc,                 \* where the call stands
    timeoutValid,       \* timeout.isValid()
    lineAlignments,     \* line 87-90
    hitTimeout,         \* line 88
    alignments,         \* line 92
    seq1LastStart,      \* line 118
    seq2LastStart,      \* line 119
    diffIdx,            \* the loop of line 121: index of the next line diff
    scanI,              \* the loop of line 99: i
    changes,            \* line 142
    deletionIdx,        \* the loop of line 270: index of the next deletion
    insertions,         \* line 264: the insertions not yet paired
    candidateMoves,     \* `moves` of computeMoves (lines 190, 200)
    excludedChanges,    \* line 268, as indices into changes
    unchangedIdx,       \* the loop of line 322: index of the next change
    possibleMappings,   \* line 318
    joinedMoves,        \* lines 207-240
    moveIdx,            \* the map of line 242: index of the next move
    moves,              \* line 144
    result,             \* the LinesDiff returned
    sequenceDiffs,      \* the argument of a call of coverFullWords on its own
    additionalDiffs,    \* line 418: `additional` when the loop has ended
    coveredDiffs,       \* and what it returned
    sliceLineRange,     \* the lineRange given to a LinesSliceCharSequence made on its own
    slice,              \* the LinesSliceCharSequence
    translated,         \* a call of translateRange on it
    unchangedMoves,     \* line 194
    refineLog,          \* the calls of refineDiff made for `alignments`, in order
    stageTimedOut,      \* a stage has met the invalid timeout and cut its work short
    expiredInLineDiff   \* the deadline passed while the line-level kernel ran

inputVars == <<originalLines, modifiedLines, options>>
lineVars == <<lineAlignments, alignments, seq1LastStart, seq2LastStart, diffIdx, scanI>>
pairingVars == <<deletionIdx, insertions, excludedChanges>>
moveVars == <<candidateMoves, unchangedIdx, possibleMappings, unchangedMoves, joinedMoves,
             moveIdx, moves>>
wordVars == <<sequenceDiffs, additionalDiffs, coveredDiffs>>
sliceVars == <<sliceLineRange, slice, translated>>
vars == <<inputVars, pc, timeoutValid, hitTimeout, lineVars, changes, pairingVars, moveVars,
          result, wordVars, sliceVars, refineLog, stageTimedOut, expiredInLineDiff>>

\* The checks of the assertFn of lines 149-176.
validatePosition(pos, lines) ==
    /\ ~(pos.lineNumber < 1 \/ pos.lineNumber > Len(lines))
    /\ ~(pos.column < 1 \/ pos.column > Len(lines[pos.lineNumber]) + 1)
validateRange(range, lines) ==
    /\ ~(range.startLineNumber < 1 \/ range.startLineNumber > Len(lines) + 1)
    /\ ~(range.endLineNumberExclusive < 1 \/ range.endLineNumberExclusive > Len(lines) + 1)
getStartPosition(range) == Position(range.startLineNumber, range.startColumn)
getEndPosition(range) == Position(range.endLineNumber, range.endColumn)

NoResult == [changes |-> <<>>, moves |-> <<>>, hitTimeout |-> FALSE, returned |-> FALSE]
LinesDiff(c, m, h) == [changes |-> c, moves |-> m, hitTimeout |-> h, returned |-> TRUE]

LineSet == UNION {[1..k -> InputChars] : k \in 0..MaxLineLen}
\* An editor document has at least one line.
Docs == {d \in UNION {[1..n -> LineSet] : n \in 1..MaxLines} : SumLens(d) <= MaxDocChars}
\* Three empty lines that change place with a line of text: the smallest
\* documents with a deletion and an insertion of three lines.
MovedLinesDocs == {<< <<>>, <<>>, <<>>, <<"a">> >>, << <<"a">>, <<>>, <<>>, <<>> >>}
OptionSet == [ignoreTrimWhitespace : BOOLEAN, computeMoves : BOOLEAN,
              maxComputationTimeMs : {0, 1}]

\* No LinesSliceCharSequence has been made, and no range translated.
NoSlice ==
    [elements |-> <<>>, firstCharOffsetByLine |-> <<>>, additionalOffsetByLine |-> <<>>,
     lineRange |-> NoRange]
NoTranslation ==
    [range |-> NoRange, start |-> Position(0, 0), end |-> Position(0, 0),
     result |-> Range(0, 0, 0, 0)]

\* What every call starts with, whatever its arguments.
InitCall ==
    /\ timeoutValid = TRUE
    /\ hitTimeout = FALSE
    /\ deletionIdx = 1
    /\ candidateMoves = <<>>
    /\ excludedChanges = {}
    /\ unchangedIdx = 1
    /\ possibleMappings = <<>>
    /\ joinedMoves = <<>>
    /\ moveIdx = 1
    /\ moves = <<>>
    /\ result = NoResult
    /\ sequenceDiffs = <<>>
    /\ additionalDiffs = <<>>
    /\ coveredDiffs = <<>>
    /\ unchangedMoves = <<>>
    /\ slice = NoSlice
    /\ translated = NoTranslation
    /\ stageTimedOut = FALSE
    /\ expiredInLineDiff = FALSE

Init ==
    /\ originalLines \in Docs \cup MovedLinesDocs
    /\ modifiedLines \in Docs \cup MovedLinesDocs
    /\ options \in OptionSet
    /\ pc = "start"
    /\ lineAlignments = <<>>
    /\ alignments = <<>>
    /\ seq1LastStart = 0
    /\ seq2LastStart = 0
    /\ diffIdx = 1
    /\ scanI = 0
    /\ refineLog = <<>>
    /\ changes = <<>>
    /\ insertions = <<>>
    /\ sliceLineRange = OffsetRange(0, 0)
    /\ InitCall

\* Line 46: InfiniteTimeout when maxComputationTimeMs is 0, else a deadline.
hasDeadline == options.maxComputationTimeMs # 0
\* Line 47.
considerWhitespaceChanges == ~options.ignoreTrimWhitespace

\* What isValid() may answer after a stretch of work that began with the
\* answer `valid`: a deadline may pass, and never comes back.
ValidAfter(valid) == IF valid /\ hasDeadline THEN {TRUE, FALSE} ELSE {valid}

(***************************************************************************)
(* The fast paths (lines 27-44).                                           *)
(***************************************************************************)
isEqualFastPath(orig, mod) == Len(orig) <= 1 /\ orig = mod
isEmptyFastPath(orig, mod) ==
    \/ Len(orig) = 1 /\ Len(orig[1]) = 0
    \/ Len(mod) = 1 /\ Len(mod[1]) = 0
\* Lines 32-43.
emptyFastPathResult(orig, mod) ==
    LinesDiff(
        <<DetailedLineRangeMapping(
            LineRange(1, Len(orig) + 1),
            LineRange(1, Len(mod) + 1),
            <<RangeMapping(Range(1, 1, Len(orig), Len(orig[1]) + 1),
                           Range(1, 1, Len(mod), Len(mod[1]) + 1))>>)>>,
        <<>>, FALSE)

FastPathEqual ==
    /\ pc = "start"
    /\ isEqualFastPath(originalLines, modifiedLines)
    /\ result' = LinesDiff(<<>>, <<>>, FALSE)
    /\ pc' = "done"
    /\ UNCHANGED <<inputVars, timeoutValid, hitTimeout, lineVars, changes, pairingVars,
                   moveVars, wordVars, sliceVars, refineLog, stageTimedOut, expiredInLineDiff>>

FastPathEmpty ==
    /\ pc = "start"
    /\ ~isEqualFastPath(originalLines, modifiedLines)
    /\ isEmptyFastPath(originalLines, modifiedLines)
    /\ result' = emptyFastPathResult(originalLines, modifiedLines)
    /\ pc' = "done"
    /\ UNCHANGED <<inputVars, timeoutValid, hitTimeout, lineVars, changes, pairingVars,
                   moveVars, wordVars, sliceVars, refineLog, stageTimedOut, expiredInLineDiff>>

(***************************************************************************)
(* The line-level diff (lines 46-90).                                      *)
(***************************************************************************)
\* Line 66: the dynamic-programming kernel for small files.
usesDynamicProgramming(orig, mod) == Len(orig) + Len(mod) < SmallFileLimit

\* Lines 72-77, in thousandths: ln(1 + n) for n = 1, 2, ...
LnOnePlus == <<693, 1099, 1386, 1609, 1792, 1946, 2079, 2197, 2303>>
\* The score that compares the trimmed lines instead of the lines.
lineEqualityScoreOfTrimmedLines(orig, mod, offset1, offset2) ==
    IF trim(orig[offset1 + 1]) = trim(mod[offset2 + 1])
    THEN IF Len(mod[offset2 + 1]) = 0 THEN 100
         ELSE 1000 + LnOnePlus[Len(mod[offset2 + 1])]
    ELSE 990
lineEqualityScore(orig, mod, offset1, offset2) ==
    IF orig[offset1 + 1] = mod[offset2 + 1]
    THEN IF Len(mod[offset2 + 1]) = 0 THEN 100
         ELSE 1000 + LnOnePlus[Len(mod[offset2 + 1])]
    ELSE 990

\* The callback of lines 72-77 as a table: scores[offset1 + 1][offset2 + 1].
lineEqualityScores(orig, mod) ==
    [a \in 1..Len(orig) |-> [b \in 1..Len(mod) |-> lineEqualityScore(orig, mod, a - 1, b - 1)]]

\* Lines 65-85.  The dynamic-programming branch is given the timeout; the
\* Myers branch (lines 81-84) is called with the two sequences only, and a
\* kernel that is given no timeout runs to its end.
lineAlignmentResult(orig, mod, stillValid) ==
    IF usesDynamicProgramming(orig, mod)
    THEN DynamicProgrammingDiffing(srcDocLinesOf(orig, mod), tgtDocLinesOf(orig, mod),
                                   stillValid,
                                   lineEqualityScores(orig, mod))
    ELSE MyersDiffAlgorithm(srcDocLinesOf(orig, mod), tgtDocLinesOf(orig, mod), TRUE)

\* Lines 89-90.
postProcessLineAlignments(orig, mod, diffs) ==
    removeRandomLineMatches(
        optimizeSequenceDiffs(LineSequence(srcDocLinesOf(orig, mod), orig),
                              LineSequence(tgtDocLinesOf(orig, mod), mod), diffs))

ComputeLineAlignments ==
    /\ pc = "start"
    /\ ~isEqualFastPath(originalLines, modifiedLines)
    /\ ~isEmptyFastPath(originalLines, modifiedLines)
    /\ \E stillValid \in ValidAfter(TRUE) :
         \E r \in lineAlignmentResult(originalLines, modifiedLines, stillValid) :
           \E d \in postProcessLineAlignments(originalLines, modifiedLines, r.diffs) :
             /\ timeoutValid' = stillValid
             /\ lineAlignments' = d
             /\ hitTimeout' = r.hitTimeout
             /\ stageTimedOut' = r.hitTimeout
             /\ expiredInLineDiff' = ~stillValid
    /\ alignments' = <<>>
    /\ seq1LastStart' = 0
    /\ seq2LastStart' = 0
    /\ diffIdx' = 1
    /\ scanI' = 0
    /\ pc' = "scan"
    /\ UNCHANGED <<inputVars, changes, pairingVars, moveVars, result, wordVars, sliceVars, refineLog>>

\* The deadline passes between two steps.
Expire ==
    /\ pc \notin {"start", "words", "done"}
    /\ hasDeadline
    /\ timeoutValid
    /\ timeoutValid' = FALSE
    /\ UNCHANGED <<inputVars, pc, hitTimeout, lineVars, changes, pairingVars, moveVars,
                   result, wordVars, sliceVars, refineLog, stageTimedOut, expiredInLineDiff>>

(***************************************************************************)
(* The walk over the line diffs (lines 92-140).                            *)
(***************************************************************************)
\* The argument of the pending call of scanForWhitespaceChanges: line 124
\* inside the loop, line 140 after it.
equalLinesCount ==
    IF diffIdx <= Len(lineAlignments)
    THEN lineAlignments[diffIdx].seq1Range.start - seq1LastStart
    ELSE Len(originalLines) - seq1LastStart

\* The scan without the early return of lines 95-97.
scanHasNextWhateverTheOption(considerWs, i, count) == i < count
\* Lines 95-97 and 99: whether the scan has another line to look at.
scanHasNext(considerWs, i, count) == considerWs /\ i < count

\* Line 102.
isWhitespaceChange(orig, mod, seq1Offset, seq2Offset) ==
    orig[seq1Offset + 1] # mod[seq2Offset + 1]

\* One iteration of the loop of scanForWhitespaceChanges (lines 99-115).
ScanForWhitespaceChanges ==
    /\ pc = "scan"
    /\ scanHasNext(considerWhitespaceChanges, scanI, equalLinesCount)
    /\ LET seq1Offset == seq1LastStart + scanI
           seq2Offset == seq2LastStart + scanI
           diff == SequenceDiff(OffsetRange(seq1Offset, seq1Offset + 1),
                                OffsetRange(seq2Offset, seq2Offset + 1))
       IN  IF isWhitespaceChange(originalLines, modifiedLines, seq1Offset, seq2Offset)
           THEN \E stillValid \in ValidAfter(timeoutValid) :
                  \E characterDiffs \in refineDiff(originalLines, modifiedLines, diff,
                                                   stillValid, considerWhitespaceChanges) :
                    /\ timeoutValid' = stillValid
                    /\ alignments' = alignments \o characterDiffs.mappings
                    /\ hitTimeout' = (hitTimeout \/ characterDiffs.hitTimeout)
                    /\ stageTimedOut' = (stageTimedOut \/ characterDiffs.hitTimeout)
                    /\ refineLog' = Append(refineLog,
                                       [diff |-> diff, count |-> Len(characterDiffs.mappings)])
           ELSE UNCHANGED <<timeoutValid, alignments, hitTimeout, stageTimedOut, refineLog>>
    /\ scanI' = scanI + 1
    /\ UNCHANGED <<inputVars, pc, lineAlignments, seq1LastStart, seq2LastStart, diffIdx,
                   changes, pairingVars, moveVars, result, wordVars, sliceVars, expiredInLineDiff>>

\* The rest of the loop body once the scan is over (lines 128-137).
RefineLineDiff ==
    /\ pc = "scan"
    /\ ~scanHasNext(considerWhitespaceChanges, scanI, equalLinesCount)
    /\ diffIdx <= Len(lineAlignments)
    /\ LET diff == lineAlignments[diffIdx]
       IN  /\ seq1LastStart' = diff.seq1Range.endExclusive
           /\ seq2LastStart' = diff.seq2Range.endExclusive
           /\ \E stillValid \in ValidAfter(timeoutValid) :
                \E characterDiffs \in refineDiff(originalLines, modifiedLines, diff,
                                                 stillValid, considerWhitespaceChanges) :
                  /\ timeoutValid' = stillValid
                  /\ alignments' = alignments \o characterDiffs.mappings
                  /\ hitTimeout' = (hitTimeout \/ characterDiffs.hitTimeout)
                  /\ stageTimedOut' = (stageTimedOut \/ characterDiffs.hitTimeout)
                  /\ refineLog' = Append(refineLog,
                                     [diff |-> diff, count |-> Len(characterDiffs.mappings)])
    /\ diffIdx' = diffIdx + 1
    /\ scanI' = 0
    /\ UNCHANGED <<inputVars, pc, lineAlignments, changes, pairingVars, moveVars, result,
                   wordVars, sliceVars, expiredInLineDiff>>

\* Lines 142-147, once the tail scan of line 140 is over: the changes, and
\* the entry into computeMoves up to the loop of line 270.
Aggregate ==
    /\ pc = "scan"
    /\ ~scanHasNext(considerWhitespaceChanges, scanI, equalLinesCount)
    /\ diffIdx > Len(lineAlignments)
    /\ changes' = lineRangeMappingFromRangeMappings(alignments, originalLines, modifiedLines)
    /\ insertions' = IF options.computeMoves THEN simpleInsertions(changes', modifiedLines)
                     ELSE <<>>
    /\ pc' = IF options.computeMoves THEN "pairing" ELSE "return"
    /\ UNCHANGED <<inputVars, timeoutValid, hitTimeout, lineVars, deletionIdx, excludedChanges,
                   moveVars, result, wordVars, sliceVars, refineLog, stageTimedOut, expiredInLineDiff>>

(***************************************************************************)
(* computeMoves, step by step (lines 181-251).                             *)
(***************************************************************************)
\* One iteration of the loop of lines 270-291.
PairDeletion ==
    /\ pc = "pairing"
    /\ LET deletions == simpleDeletions(changes, originalLines)
       IN  /\ deletionIdx <= Len(deletions)
           /\ LET st == pairDeletion([moves |-> candidateMoves, insertions |-> insertions,
                                      excludedChanges |-> excludedChanges],
                                     deletions[deletionIdx])
              IN  /\ candidateMoves' = st.moves
                  /\ insertions' = st.insertions
                  /\ excludedChanges' = st.excludedChanges
           \* Lines 288-290 leave the loop.
           /\ deletionIdx' = IF timeoutValid THEN deletionIdx + 1 ELSE Len(deletions) + 1
    /\ UNCHANGED <<inputVars, pc, timeoutValid, hitTimeout, lineVars, changes, unchangedIdx,
                   possibleMappings, unchangedMoves, joinedMoves, moveIdx, moves, result, wordVars, sliceVars, refineLog,
                   stageTimedOut, expiredInLineDiff>>

\* Line 192, after the loop.
CheckTimeoutAfterPairing ==
    /\ pc = "pairing"
    /\ deletionIdx > Len(simpleDeletions(changes, originalLines))
    /\ IF ~timeoutValid
       THEN /\ moves' = <<>>
            /\ stageTimedOut' = TRUE
            /\ pc' = "return"
       ELSE /\ pc' = "unchanged"
            /\ UNCHANGED <<moves, stageTimedOut>>
    /\ unchangedIdx' = 1
    /\ possibleMappings' = <<>>
    /\ UNCHANGED <<inputVars, timeoutValid, hitTimeout, lineVars, changes, pairingVars,
                   candidateMoves, unchangedMoves, joinedMoves, moveIdx, result, wordVars, sliceVars, refineLog,
                   expiredInLineDiff>>

\* One iteration of the loop of lines 322-354 of computeUnchangedMoves.
ScanChangeForUnchangedMoves ==
    /\ pc = "unchanged"
    /\ LET kept == changesForUnchangedMoves(changes, excludedChanges)
           sorted == sortedByModifiedStart(kept)
       IN  /\ unchangedIdx <= Len(sorted)
           /\ possibleMappings' =
                scanModifiedWindows(possibleMappings, <<>>,
                    sorted[unchangedIdx].modified.startLineNumber, sorted[unchangedIdx],
                    original3LineHashesOf(kept, srcDocLinesOf(originalLines, modifiedLines)),
                    tgtDocLinesOf(originalLines, modifiedLines))
    \* Lines 351-353: computeUnchangedMoves returns no moves.
    /\ IF ~timeoutValid
       THEN /\ pc' = "join"
            /\ stageTimedOut' = TRUE
            /\ UNCHANGED unchangedIdx
       ELSE /\ unchangedIdx' = unchangedIdx + 1
            /\ UNCHANGED <<pc, stageTimedOut>>
    /\ UNCHANGED <<inputVars, timeoutValid, hitTimeout, lineVars, changes, pairingVars,
                   candidateMoves, unchangedMoves, joinedMoves, moveIdx, moves, result, wordVars, sliceVars, refineLog,
                   expiredInLineDiff>>

\* Lines 356-383, and line 200.
PickUnchangedMoves ==
    /\ pc = "unchanged"
    /\ unchangedIdx > Len(changesForUnchangedMoves(changes, excludedChanges))
    /\ unchangedMoves' = movesOfPossibleMappings(possibleMappings)
    /\ candidateMoves' = candidateMoves \o unchangedMoves'
    /\ pc' = "join"
    /\ UNCHANGED <<inputVars, timeoutValid, hitTimeout, lineVars, changes, pairingVars,
                   unchangedIdx, possibleMappings, joinedMoves, moveIdx, moves, result,
                   wordVars, sliceVars, refineLog, stageTimedOut, expiredInLineDiff>>

\* Lines 202-240.
JoinMoves ==
    /\ pc = "join"
    /\ joinedMoves' = filterNonMoves(joinMoves(candidateMoves, originalLines), changes)
    /\ moveIdx' = 1
    /\ moves' = <<>>
    /\ pc' = IF joinedMoves' = <<>> THEN "return" ELSE "refineMoves"
    /\ UNCHANGED <<inputVars, timeoutValid, hitTimeout, lineVars, changes, pairingVars,
                   candidateMoves, unchangedIdx, possibleMappings, unchangedMoves, result, wordVars, sliceVars,
                   refineLog, stageTimedOut, expiredInLineDiff>>

\* The callback of line 242 for one move; the hitTimeout of the refinement
\* is not read.
RefineMove ==
    /\ pc = "refineMoves"
    /\ moveIdx <= Len(joinedMoves)
    /\ LET m == joinedMoves[moveIdx]
       IN  \E stillValid \in ValidAfter(timeoutValid) :
             \E moveChanges \in refineDiff(originalLines, modifiedLines,
                                   SequenceDiff(LineRangeToOffsetRange(m.original),
                                                LineRangeToOffsetRange(m.modified)),
                                   stillValid, considerWhitespaceChanges) :
               /\ timeoutValid' = stillValid
               /\ moves' = Append(moves,
                             MovedText(m, lineRangeMappingFromRangeMappings(
                                            moveChanges.mappings, originalLines, modifiedLines)))
               /\ stageTimedOut' = (stageTimedOut \/ moveChanges.hitTimeout)
    /\ moveIdx' = moveIdx + 1
    /\ pc' = IF moveIdx = Len(joinedMoves) THEN "return" ELSE "refineMoves"
    /\ UNCHANGED <<inputVars, hitTimeout, lineVars, changes, pairingVars, candidateMoves,
                   unchangedIdx, possibleMappings, unchangedMoves, joinedMoves, result, wordVars, sliceVars, refineLog,
                   expiredInLineDiff>>

\* Line 178.
Return ==
    /\ pc = "return"
    /\ result' = LinesDiff(changes, moves, hitTimeout)
    /\ pc' = "done"
    /\ UNCHANGED <<inputVars, timeoutValid, hitTimeout, lineVars, changes, pairingVars,
                   moveVars, wordVars, sliceVars, refineLog, stageTimedOut, expiredInLineDiff>>

Next ==
    \/ FastPathEqual
    \/ FastPathEmpty
    \/ ComputeLineAlignments
    \/ Expire
    \/ ScanForWhitespaceChanges
    \/ RefineLineDiff
    \/ Aggregate
    \/ PairDeletion
    \/ CheckTimeoutAfterPairing
    \/ ScanChangeForUnchangedMoves
    \/ PickUnchangedMoves
    \/ JoinMoves
    \/ RefineMove
    \/ Return

Spec == Init /\ [][Next]_vars

(***************************************************************************)
(* computeDiff on documents in which blocks of lines change place.         *)
(***************************************************************************)
BlockLineLen == 4
Rep(chr, n) == [i \in 1..n |-> chr]
\* Lines that stay where they are, and outweigh the blocks that move.
KeptBlock == <<Rep("k", BlockLineLen), Rep("l", BlockLineLen), Rep("m", BlockLineLen),
               Rep("n", BlockLineLen)>>
LongKeptBlock == KeptBlock \o <<Rep("o", BlockLineLen), Rep("p", BlockLineLen),
                                Rep("q", BlockLineLen)>>
ShortBlock == << <<"x">>, <<"y">>, <<"z">> >>
WideBlock == <<Rep("u", 3), Rep("v", 3), Rep("w", 3)>>
HeadBlock == << <<"a">>, <<"b">>, <<"c">> >>
TailBlock == << <<"d">>, <<"e">>, <<"f">> >>
EmptyLine == <<>>
\* Three lines of two letters, and the same lines with their letters in the
\* other order: no line of one block is a line of the other, and the two
\* blocks have the same letters.
LetterBlock == << <<"a", "b">>, <<"c", "d">>, <<"e", "f">> >>
TurnedBlock == << <<"b", "a">>, <<"d", "c">>, <<"f", "e">> >>
\* The turned block with one more letter.
LongerTurnedBlock == << <<"b", "a">>, <<"d", "c">>, <<"f", "e", "x">> >>

MoveDocPairs ==
    { \* a block moves to the end of the file, before a final empty line
      <<ShortBlock \o KeptBlock, KeptBlock \o ShortBlock \o <<EmptyLine>> >>,
      \* two blocks change places
      <<ShortBlock \o KeptBlock \o WideBlock, WideBlock \o KeptBlock \o ShortBlock>>,
      \* a block moves and loses a line from its middle
      <<HeadBlock \o <<Rep("g", BlockLineLen)>> \o TailBlock \o LongKeptBlock,
        LongKeptBlock \o HeadBlock \o TailBlock>>,
      \* a block moves and is there twice
      <<WideBlock \o KeptBlock, KeptBlock \o WideBlock \o WideBlock>>,
      \* two blocks are deleted and two are inserted, all of the same letters
      <<LetterBlock \o <<Rep("k", BlockLineLen)>> \o LetterBlock
            \o <<Rep("l", BlockLineLen), Rep("m", BlockLineLen)>>,
        <<Rep("k", BlockLineLen), Rep("l", BlockLineLen)>> \o LongerTurnedBlock
            \o <<Rep("m", BlockLineLen)>> \o TurnedBlock>>,
      \* a block that begins with four equal lines moves and loses the first
      <<Rep(<<"x">>, 4) \o << <<"y">> >> \o LongKeptBlock,
        LongKeptBlock \o Rep(<<"x">>, 3) \o << <<"y">> >> >>,
      \* the fast paths
      << <<EmptyLine>>, ShortBlock>>,
      << <<EmptyLine>>, <<EmptyLine>> >> }

InitMoves ==
    /\ \E pair \in MoveDocPairs : originalLines = pair[1] /\ modifiedLines = pair[2]
    /\ options \in {o \in OptionSet : o.computeMoves}
    /\ pc = "start"
    /\ lineAlignments = <<>>
    /\ alignments = <<>>
    /\ seq1LastStart = 0
    /\ seq2LastStart = 0
    /\ diffIdx = 1
    /\ scanI = 0
    /\ refineLog = <<>>
    /\ changes = <<>>
    /\ insertions = <<>>
    /\ sliceLineRange = OffsetRange(0, 0)
    /\ InitCall

SpecMoves == InitMoves /\ [][Next]_vars

(***************************************************************************)
(* Lines 390-396 of refineDiff on one line against one line: the kernel,   *)
(* optimizeSequenceDiffs and coverFullWords.                               *)
(***************************************************************************)
MaxWordLineLen == 4
OriginalWordChars == {"a", "b", " "}
ModifiedWordChars == {"a", "c", " "}
WordLines(chars) == UNION {[1..k -> chars] : k \in 0..MaxWordLineLen}
WordLinePairs ==
    {pair \in WordLines(OriginalWordChars) \X WordLines(ModifiedWordChars) : pair[1] # pair[2]}
    \cup {<< <<"a", "b", "X", "c", "d", "Y", "e", "f">>,
             <<"a", "b", "P", "c", "d", "Q", "e", "f">> >>}

InitWords ==
    /\ \E pair \in WordLinePairs : originalLines = <<pair[1]>> /\ modifiedLines = <<pair[2]>>
    /\ options = [ignoreTrimWhitespace |-> FALSE, computeMoves |-> FALSE,
                  maxComputationTimeMs |-> 0]
    /\ pc = "words"
    /\ lineAlignments = <<SequenceDiff(OffsetRange(0, 1), OffsetRange(0, 1))>>
    /\ alignments = <<>>
    /\ seq1LastStart = 0
    /\ seq2LastStart = 0
    /\ diffIdx = 1
    /\ scanI = 0
    /\ refineLog = <<>>
    /\ changes = <<>>
    /\ insertions = <<>>
    /\ sliceLineRange = OffsetRange(0, 0)
    /\ InitCall

CoverFullWords ==
    /\ pc = "words"
    /\ LET slice1 == LinesSliceCharSequence(originalLines, OffsetRange(0, 1), TRUE)
           slice2 == LinesSliceCharSequence(modifiedLines, OffsetRange(0, 1), TRUE)
       IN  \E diffResult \in refineKernel(slice1, slice2, TRUE) :
             LET diffs == optimizeSequenceDiffs(CharSequenceOf(slice1), CharSequenceOf(slice2),
                                                diffResult.diffs)
             IN  /\ sequenceDiffs' = diffs
                 /\ additionalDiffs' = coverFullWordsAdditional(slice1, slice2, diffs)
                 /\ coveredDiffs' = coverFullWords(slice1, slice2, diffs)
    /\ pc' = "done"
    /\ UNCHANGED <<inputVars, timeoutValid, hitTimeout, lineVars, changes, pairingVars,
                   moveVars, result, sliceVars, refineLog, stageTimedOut, expiredInLineDiff>>

NextWords == CoverFullWords

SpecWords == InitWords /\ [][NextWords]_vars

(***************************************************************************)
(* A LinesSliceCharSequence made for a range of the lines of a document    *)
(* (lines 629-669), and a call of translateRange on it (lines 727-729).    *)
(***************************************************************************)
MaxSliceLines == 3
MaxSliceLineLen == 3
MaxSliceChars == 4
SliceLineSet == UNION {[1..k -> InputChars] : k \in 0..MaxSliceLineLen}
SliceDocs ==
    {d \in UNION {[1..n -> SliceLineSet] : n \in 1..MaxSliceLines} : SumLens(d) <= MaxSliceChars}
\* The line-offset ranges of a document: 0 <= start <= endExclusive <= length.
LineOffsetRanges(lines) ==
    {r \in [start : 0..Len(lines), endExclusive : 0..Len(lines)] : r.start <= r.endExclusive}

InitSlices ==
    /\ originalLines \in SliceDocs
    /\ modifiedLines = originalLines
    /\ options \in {o \in OptionSet : ~o.computeMoves /\ o.maxComputationTimeMs = 0}
    /\ sliceLineRange \in LineOffsetRanges(originalLines)
    /\ pc = "slice"
    /\ lineAlignments = <<>>
    /\ alignments = <<>>
    /\ seq1LastStart = 0
    /\ seq2LastStart = 0
    /\ diffIdx = 1
    /\ scanI = 0
    /\ refineLog = <<>>
    /\ changes = <<>>
    /\ insertions = <<>>
    /\ InitCall

\* Lines 629-669.
ConstructSlice ==
    /\ pc = "slice"
    /\ slice' = LinesSliceCharSequence(originalLines, sliceLineRange, considerWhitespaceChanges)
    /\ pc' = "sliced"
    /\ UNCHANGED <<inputVars, timeoutValid, hitTimeout, lineVars, changes, pairingVars,
                   moveVars, result, wordVars, sliceLineRange, translated, refineLog,
                   stageTimedOut, expiredInLineDiff>>

\* Lines 727-729, for a range of offsets of the slice.
TranslateRange ==
    /\ pc = "sliced"
    /\ \E s \in 0..Len(slice.elements) :
         \E e \in s..Len(slice.elements) :
           translated' = [range |-> OffsetRange(s, e),
                          start |-> translateOffset(slice, s),
                          end |-> translateOffset(slice, e),
                          result |-> translateRange(slice, OffsetRange(s, e))]
    /\ pc' = "done"
    /\ UNCHANGED <<inputVars, timeoutValid, hitTimeout, lineVars, changes, pairingVars,
                   moveVars, result, wordVars, sliceLineRange, slice, refineLog,
                   stageTimedOut, expiredInLineDiff>>

NextSlices ==
    \/ ConstructSlice
    \/ TranslateRange

SpecSlices == InitSlices /\ [][NextSlices]_vars

(***************************************************************************)
(* Properties.                                                             *)
(***************************************************************************)
\* The text of a document: its lines joined by line feeds.
RECURSIVE JoinLines(_)
JoinLines(lines) ==
    IF Len(lines) = 1 THEN lines[1] ELSE lines[1] \o <<LF>> \o JoinLines(Tail(lines))
\* The offset of a valid position in the text of its document.
PosOffset(lines, pos) ==
    SumLens(SubSeq(lines, 1, pos.lineNumber - 1)) + (pos.lineNumber - 1) + pos.column - 1
RangeValid(r, lines) ==
    /\ validatePosition(getStartPosition(r), lines)
    /\ validatePosition(getEndPosition(r), lines)
    /\ PosOffset(lines, getStartPosition(r)) <= PosOffset(lines, getEndPosition(r))
RangeText(lines, r) ==
    Slice(JoinLines(lines), PosOffset(lines, getStartPosition(r)),
          PosOffset(lines, getEndPosition(r)))

\* The text that results from replacing, from the offset cur of the original
\* on, every originalRange by the text of its modifiedRange; ok is FALSE when
\* a range is no range of its document or the ranges are not in order.
RECURSIVE ApplyFrom(_, _, _, _, _)
ApplyFrom(orig, mod, mappings, cur, out) ==
    IF mappings = <<>>
    THEN [ok |-> TRUE, text |-> out \o Slice(JoinLines(orig), cur, Len(JoinLines(orig)))]
    ELSE LET m == Head(mappings)
         IN  IF \/ ~RangeValid(m.originalRange, orig)
                \/ ~RangeValid(m.modifiedRange, mod)
                \/ PosOffset(orig, getStartPosition(m.originalRange)) < cur
             THEN [ok |-> FALSE, text |-> <<>>]
             ELSE ApplyFrom(orig, mod, Tail(mappings),
                            PosOffset(orig, getEndPosition(m.originalRange)),
                            out \o Slice(JoinLines(orig), cur,
                                         PosOffset(orig, getStartPosition(m.originalRange)))
                                \o RangeText(mod, m.modifiedRange))
InnerChangesOf(cs) == Flatten([k \in 1..Len(cs) |-> cs[k].innerChanges])

fastPathTaken ==
    isEqualFastPath(originalLines, modifiedLines) \/ isEmptyFastPath(originalLines, modifiedLines)

\* C1: the changes computeDiff returns are strictly ordered on both sides,
\* and between two neighbours the gap of unchanged lines is the same on both
\* sides and is not empty.
C1_LineBoundary ==
    result.returned =>
        \A k \in 1..(Len(result.changes) - 1) :
            LET m1 == result.changes[k]
                m2 == result.changes[k + 1]
            IN  /\ m2.original.startLineNumber - m1.original.endLineNumberExclusive
                     = m2.modified.startLineNumber - m1.modified.endLineNumberExclusive
                /\ m1.original.endLineNumberExclusive < m2.original.startLineNumber
                /\ m1.modified.endLineNumberExclusive < m2.modified.startLineNumber

\* C2: replacing every originalRange of the returned inner mappings by the
\* text of its modifiedRange turns the original into the modified document
\* (stated for the calls that do not ignore whitespace at the line ends and
\* that the fast paths do not answer).
C2_ApplyYieldsModified ==
    (result.returned /\ ~options.ignoreTrimWhitespace /\ ~fastPathTaken) =>
        ApplyFrom(originalLines, modifiedLines, InnerChangesOf(result.changes), 0, <<>>)
            = [ok |-> TRUE, text |-> JoinLines(modifiedLines)]

PositionWithin(pos, lineRange) ==
    lineRange.startLineNumber <= pos.lineNumber
        /\ pos.lineNumber <= lineRange.endLineNumberExclusive

\* C3: on every return path, the outer line ranges of a change lie within
\* [1, number of lines + 1], and the ends of every inner mapping are valid
\* positions of their document and lie within the outer line ranges.
C3_RangesValid ==
    result.returned =>
        \A k \in 1..Len(result.changes) :
            LET c == result.changes[k]
            IN  /\ validateRange(c.original, originalLines)
                /\ validateRange(c.modified, modifiedLines)
                /\ \A x \in 1..Len(c.innerChanges) :
                     LET ic == c.innerChanges[x]
                     IN  /\ validatePosition(getStartPosition(ic.originalRange), originalLines)
                         /\ validatePosition(getEndPosition(ic.originalRange), originalLines)
                         /\ validatePosition(getStartPosition(ic.modifiedRange), modifiedLines)
                         /\ validatePosition(getEndPosition(ic.modifiedRange), modifiedLines)
                         /\ PositionWithin(getStartPosition(ic.originalRange), c.original)
                         /\ PositionWithin(getEndPosition(ic.originalRange), c.original)
                         /\ PositionWithin(getStartPosition(ic.modifiedRange), c.modified)
                         /\ PositionWithin(getEndPosition(ic.modifiedRange), c.modified)

\* C4: when one input is a single empty line and the inputs differ, the
\* result is one change of the whole line ranges, whose only inner mapping
\* runs from (1,1) to just after the last character of the last line of
\* either input; there are no moves and hitTimeout is false.
C4_FastPathSpansWholeInputs ==
    (result.returned /\ ~isEqualFastPath(originalLines, modifiedLines)
                     /\ isEmptyFastPath(originalLines, modifiedLines)) =>
        /\ result.moves = <<>>
        /\ ~result.hitTimeout
        /\ result.changes =
             <<DetailedLineRangeMapping(
                 LineRange(1, Len(originalLines) + 1),
                 LineRange(1, Len(modifiedLines) + 1),
                 <<RangeMapping(
                     Range(1, 1, Len(originalLines),
                           Len(originalLines[Len(originalLines)]) + 1),
                     Range(1, 1, Len(modifiedLines),
                           Len(modifiedLines[Len(modifiedLines)]) + 1))>>)>>

\* C5: every move that is returned has as many original lines as modified
\* lines.
C5_MovesKeepLength ==
    result.returned =>
        \A k \in 1..Len(result.moves) :
            LineRangeLength(result.moves[k].lineRangeMapping.original)
                = LineRangeLength(result.moves[k].lineRangeMapping.modified)

\* C6: no two returned moves share an original line, and no two share a
\* modified line.
C6_MovesDisjoint ==
    result.returned =>
        \A k, l \in 1..Len(result.moves) :
            k < l =>
                /\ LinesOf(result.moves[k].lineRangeMapping.original)
                      \cap LinesOf(result.moves[l].lineRangeMapping.original) = {}
                /\ LinesOf(result.moves[k].lineRangeMapping.modified)
                      \cap LinesOf(result.moves[l].lineRangeMapping.modified) = {}
\* Two moves are returned.
C6_TwoMovesReturned == result.returned /\ Len(result.moves) >= 2

\* C7: when a stage has come back early or with a trivial result because the
\* timeout was no longer valid, the LinesDiff that is returned says hitTimeout
\* (stated for the calls whose deadline passes after the line-level diff).
C7_TimeoutReported ==
    (result.returned /\ stageTimedOut /\ ~expiredInLineDiff) => result.hitTimeout

\* C8: when the deadline passes during the line-level diff, the result says
\* hitTimeout, whichever kernel computed the line-level diff.
C8_LineDiffDeadlineReported == (result.returned /\ expiredInLineDiff) => result.hitTimeout

\* The offset of the modified line that the line-level diff aligns with the
\* original line of offset o1; -1 when that line is inside a hunk.
AlignedOffset(diffs, o1) ==
    LET hunks == 1..Len(diffs)
        before == {k \in hunks : diffs[k].seq1Range.endExclusive <= o1}
    IN  IF \E k \in hunks : diffs[k].seq1Range.start <= o1 /\ o1 < diffs[k].seq1Range.endExclusive
        THEN -1
        ELSE IF before = {} THEN o1
        ELSE o1 - diffs[Max(before)].seq1Range.endExclusive
                + diffs[Max(before)].seq2Range.endExclusive
\* The aligned pairs of lines whose texts differ: they differ at the line
\* ends only, the line-level diff having found them equal.
WhitespacePairs ==
    {p \in (0..(Len(originalLines) - 1)) \X (0..(Len(modifiedLines) - 1)) :
        /\ p[2] = AlignedOffset(lineAlignments, p[1])
        /\ originalLines[p[1] + 1] # modifiedLines[p[2] + 1]}
OneLineDiff(p) == SequenceDiff(OffsetRange(p[1], p[1] + 1), OffsetRange(p[2], p[2] + 1))
Hunks == {lineAlignments[k] : k \in 1..Len(lineAlignments)}
RefinedDiffs == {refineLog[k].diff : k \in 1..Len(refineLog)}
walkOver == pc \notin {"start", "scan", "words"} /\ ~fastPathTaken

\* C9: once the walk over the line-level diff is over, what was refined is
\* every hunk and, only when ignoreTrimWhitespace is false, every aligned
\* pair of lines that differ at the line ends, each as a hunk of one line;
\* each was refined once, in document order, and the mappings are those of
\* these refinements and no others.
C9_WhitespacePairsRefined ==
    walkOver =>
        /\ RefinedDiffs = Hunks \cup (IF options.ignoreTrimWhitespace THEN {}
                                      ELSE {OneLineDiff(p) : p \in WhitespacePairs})
        /\ Len(refineLog) = Cardinality(RefinedDiffs)
        /\ \A i, j \in 1..Len(refineLog) :
             i < j => /\ refineLog[i].diff.seq1Range.endExclusive
                           <= refineLog[j].diff.seq1Range.start
                      /\ refineLog[i].diff.seq2Range.endExclusive
                           <= refineLog[j].diff.seq2Range.start
        /\ Len(alignments) = SumSeq([k \in 1..Len(refineLog) |-> refineLog[k].count])
\* A pair of lines that differ at the line ends was refined before a hunk,
\* and gave mappings.
C9_PairRefinedBeforeHunk ==
    /\ result.returned
    /\ ~options.ignoreTrimWhitespace
    /\ \E i, j \in 1..Len(refineLog) :
         /\ i < j
         /\ refineLog[i].diff \notin Hunks
         /\ refineLog[i].count > 0
         /\ refineLog[j].diff \in Hunks

wordSlice1 == LinesSliceCharSequence(originalLines, OffsetRange(0, 1), TRUE)
wordSlice2 == LinesSliceCharSequence(modifiedLines, OffsetRange(0, 1), TRUE)
\* The word of the original line that holds the first diff.
firstDiffWord == findWordContaining(wordSlice1, sequenceDiffs[1].seq1Range.start)
\* The diffs of the kernel are two replacements of one character by one
\* character, inside one word that is the same range on both sides.
twoReplacementsInOneWord ==
    /\ pc = "done"
    /\ Len(sequenceDiffs) = 2
    /\ \A k \in 1..2 : /\ OffsetRangeLength(sequenceDiffs[k].seq1Range) = 1
                       /\ OffsetRangeLength(sequenceDiffs[k].seq2Range) = 1
    /\ firstDiffWord # NoRange
    /\ \A k \in 1..2 :
         /\ findWordContaining(wordSlice1, sequenceDiffs[k].seq1Range.start) = firstDiffWord
         /\ findWordContaining(wordSlice2, sequenceDiffs[k].seq2Range.start) = firstDiffWord

\* C10 as stated: two replacements of one character inside one word come out
\* of coverFullWords as one diff of the whole word.
C10_TwoReplacementsCoalesced ==
    twoReplacementsInOneWord =>
        coveredDiffs = <<SequenceDiff(firstDiffWord, firstDiffWord)>>

\* C10 as amended: two replacements of one character inside one word come
\* out as one diff of the whole word when the word has at most four
\* characters (3 > length - 2), and come out as they went in when it is
\* longer, as for abXcdYef and abPcdQef.
C10_CoalescedOnlyInShortWords ==
    twoReplacementsInOneWord =>
        IF 3 > OffsetRangeLength(firstDiffWord) - 2
        THEN coveredDiffs = <<SequenceDiff(firstDiffWord, firstDiffWord)>>
        ELSE coveredDiffs = sequenceDiffs
\* abXcdYef against abPcdQef went through coverFullWords.
C10_LongWordReplacedTwice ==
    /\ twoReplacementsInOneWord
    /\ OffsetRangeLength(firstDiffWord) = 8
    /\ sequenceDiffs = <<SequenceDiff(OffsetRange(2, 3), OffsetRange(2, 3)),
                         SequenceDiff(OffsetRange(5, 6), OffsetRange(5, 6))>>


\* A candidate of computeMoves lies within a move: its lines are among the
\* move's lines on both sides.
candidateWithin(c, m) ==
    /\ LinesOf(c.original) \subseteq LinesOf(m.original)
    /\ LinesOf(c.modified) \subseteq LinesOf(m.modified)
\* The candidates whose trimmed original text has at most 10 characters.
smallCandidates ==
    {k \in 1..Len(candidateMoves) :
        trimmedTextLength(candidateMoves[k].original, originalLines) <= 10}

\* C11: no candidate of computeMoves whose trimmed original text is shorter
\* than 11 characters reaches the returned moves, be it the first of the
\* sorted candidates, a later one, or one that was joined to another.
C11_SmallCandidatesDropped ==
    result.returned =>
        \A k \in smallCandidates :
            \A l \in 1..Len(result.moves) :
                ~candidateWithin(candidateMoves[k], result.moves[l].lineRangeMapping)


\* The line-level dynamic-programming kernel has been given its equality
\* score for the lines of the two documents.
scoreGiven ==
    /\ pc \notin {"start", "words"}
    /\ ~fastPathTaken
    /\ usesDynamicProgramming(originalLines, modifiedLines)
\* Pairs of lines, as offsets.
LinePairs == (0..(Len(originalLines) - 1)) \X (0..(Len(modifiedLines) - 1))
scoreOf(p) == lineEqualityScores(originalLines, modifiedLines)[p[1] + 1][p[2] + 1]

\* C12: the equality score of a pair of lines is 0.99 exactly when their
\* trimmed texts differ (scores are in thousandths).
C12_ScoreByTrimmedText ==
    scoreGiven =>
        \A p \in LinePairs :
            (scoreOf(p) = 990)
                <=> (trim(originalLines[p[1] + 1]) # trim(modifiedLines[p[2] + 1]))

\* C12, amended: the equality score of a pair of lines is 0.99 exactly when
\* the lines differ as they stand, 0.1 when they are the same empty line, and
\* 1 + ln(1 + length) when they are the same line of some length; lines that
\* are equal only after trimming get 0.99.
C12_ScoreByExactText ==
    scoreGiven =>
        \A p \in LinePairs :
            LET l1 == originalLines[p[1] + 1]
                l2 == modifiedLines[p[2] + 1]
            IN  /\ (scoreOf(p) = 990) <=> (l1 # l2)
                /\ (scoreOf(p) = 100) <=> (l1 = l2 /\ Len(l2) = 0)
                /\ (l1 = l2 /\ Len(l2) > 0) => scoreOf(p) = 1000 + LnOnePlus[Len(l2)]
                /\ (trim(l1) = trim(l2) /\ l1 # l2) => scoreOf(p) = 990
\* The kernel has scored two lines that are equal only after trimming, and
\* two lines that are the same and not empty.
C12_ScoredTrimEqualLines ==
    /\ scoreGiven
    /\ \E p \in LinePairs :
         /\ trim(originalLines[p[1] + 1]) = trim(modifiedLines[p[2] + 1])
         /\ originalLines[p[1] + 1] # modifiedLines[p[2] + 1]
    /\ \E p \in LinePairs :
         /\ originalLines[p[1] + 1] = modifiedLines[p[2] + 1]
         /\ Len(modifiedLines[p[2] + 1]) > 0


\* A LinesSliceCharSequence has been made for sliceLineRange.
sliceMade == pc \in {"sliced", "done"} /\ slice # NoSlice
LFCount(elements) == Cardinality({i \in 1..Len(elements) : elements[i] = LF})
coversDocument == sliceLineRange = OffsetRange(0, Len(originalLines))

\* C13: the elements of a slice of the lines [ls, le) hold le - ls line
\* feeds when the slice is not the whole document, and one line feed less than
\* the document has lines when it is.
C13_SeparatorCount ==
    sliceMade =>
        LFCount(slice.elements) =
            IF coversDocument THEN Len(originalLines) - 1
            ELSE OffsetRangeLength(sliceLineRange)
\* A slice of some lines that ends with the last line of the document and
\* does not start with its first line: the previous line is prepended.
C13_SliceWithPrependedLine ==
    /\ sliceMade
    /\ trimFirstLineFullyOf(originalLines, sliceLineRange)
    /\ ~OffsetRangeIsEmpty(sliceLineRange)
    /\ slice.lineRange.start = sliceLineRange.start - 1

\* The position is that of a character of the document, and the character is
\* the element at the offset.
designatesElement(pos, offset) ==
    /\ pos.lineNumber \in 1..Len(originalLines)
    /\ pos.column \in 1..Len(originalLines[pos.lineNumber])
    /\ originalLines[pos.lineNumber][pos.column] = slice.elements[offset + 1]
isCharOffset(offset) == offset < Len(slice.elements) /\ slice.elements[offset + 1] # LF
positionBefore(p1, p2) ==
    \/ p1.lineNumber < p2.lineNumber
    \/ p1.lineNumber = p2.lineNumber /\ p1.column < p2.column
rangeTranslated == pc = "done" /\ translated # NoTranslation

\* C14: translateRange gives, for an offset whose element is not a line feed,
\* the position of that very character in the document, whether the lines
\* were trimmed or not and whether a line was prepended or not; and the
\* position of a smaller offset is before the position of a greater one.
C14_TranslationInvertsLayout ==
    rangeTranslated =>
        /\ isCharOffset(translated.range.start)
              => designatesElement(translated.start, translated.range.start)
        /\ isCharOffset(translated.range.endExclusive)
              => designatesElement(translated.end, translated.range.endExclusive)
        /\ translated.range.start < translated.range.endExclusive
              => positionBefore(translated.start, translated.end)
        /\ translated.result = RangeFromPositions(translated.start, translated.end)
\* A range of characters is translated in a slice of trimmed lines with a
\* prepended line, and its first character comes after leading whitespace.
C14_TranslatedInTrimmedSlice ==
    /\ rangeTranslated
    /\ ~considerWhitespaceChanges
    /\ trimFirstLineFullyOf(originalLines, sliceLineRange)
    /\ isCharOffset(translated.range.start)
    /\ translated.start.column > 1
    /\ originalLines[translated.start.lineNumber][1] \in SpaceChars
    /\ translated.range.start < translated.range.endExclusive


\* coverFullWords has merged sequenceDiffs and additionalDiffs into
\* coveredDiffs (line 484).
diffsMerged == pc = "done" /\ sequenceDiffs # <<>>
sortedBySeq1Start(diffs) ==
    \A k \in 1..(Len(diffs) - 1) : diffs[k].seq1Range.start <= diffs[k + 1].seq1Range.start
rangesOverlap(r1, r2) ==
    MaxOf(r1.start, r2.start) < MinOf(r1.endExclusive, r2.endExclusive)
diffContains(d, other) ==
    /\ OffsetRangeContainsRange(d.seq1Range, other.seq1Range)
    /\ OffsetRangeContainsRange(d.seq2Range, other.seq2Range)
mergeInputs ==
    {sequenceDiffs[k] : k \in 1..Len(sequenceDiffs)}
        \cup {additionalDiffs[k] : k \in 1..Len(additionalDiffs)}

pairingOver == pc = "unchanged"
isDeletion(c) == LineRangeIsEmpty(c.modified) /\ LineRangeLength(c.original) >= 3
isInsertion(c) == LineRangeIsEmpty(c.original) /\ LineRangeLength(c.modified) >= 3
deletionIdxs == {k \in 1..Len(changes) : isDeletion(changes[k])}
insertionIdxs == {k \in 1..Len(changes) : isInsertion(changes[k])}
pairedMoveIdxs == 1..Len(candidateMoves)
\* The similarity of the deletion changes[d] and the insertion changes[i].
similarityOf(d, i) ==
    computeSimilarity(LineRangeFragment(changes[d].original, originalLines, d),
                      LineRangeFragment(changes[i].modified, modifiedLines, i))
\* The moves emitted for the deletion changes[d].
movesOfDeletion(d) == {j \in pairedMoveIdxs : candidateMoves[j].original = changes[d].original}
movesOfInsertion(i) == {j \in pairedMoveIdxs : candidateMoves[j].modified = changes[i].modified}
\* The insertions that remain when the deletion changes[d] has its turn: those
\* in no move of an earlier deletion.
remainingFor(d) ==
    {i \in insertionIdxs : \A e \in deletionIdxs : e < d => movesOfInsertion(i) \cap movesOfDeletion(e) = {}}
\* The lines the trigram stage has looked at so far.
searchedOriginalLines ==
    UNION {LinesOf(possibleMappings[k].originalLineRange) : k \in 1..Len(possibleMappings)}
searchedModifiedLines ==
    UNION {LinesOf(possibleMappings[k].modifiedLineRange) : k \in 1..Len(possibleMappings)}

\* C16: the moves of the pairing stage go from a deletion of three lines or
\* more to an insertion of three lines or more; a deletion is paired with the
\* most similar of the insertions that remain, iff that similarity is above
\* 0.90; no deletion and no insertion is in two moves; and the two changes of
\* a move are excluded and not searched by the trigram stage.
C16_GreedyPairing ==
    pairingOver =>
        /\ \A j \in pairedMoveIdxs :
              /\ \E d \in deletionIdxs : j \in movesOfDeletion(d)
              /\ \E i \in insertionIdxs : j \in movesOfInsertion(i)
        /\ \A d \in deletionIdxs :
              /\ Cardinality(movesOfDeletion(d)) <= 1
              /\ (movesOfDeletion(d) # {})
                    <=> (\E i \in remainingFor(d) : similarityAboveThreshold(similarityOf(d, i)))
              /\ \A j \in movesOfDeletion(d) :
                    \E i \in remainingFor(d) :
                        /\ j \in movesOfInsertion(i)
                        /\ similarityAboveThreshold(similarityOf(d, i))
                        /\ \A other \in remainingFor(d) :
                              ~similarityGreater(similarityOf(d, other), similarityOf(d, i))
                        /\ {d, i} \subseteq excludedChanges
                        /\ LinesOf(changes[d].original) \cap searchedOriginalLines = {}
                        /\ LinesOf(changes[i].modified) \cap searchedModifiedLines = {}
                        /\ \A c \in 1..Len(changesForUnchangedMoves(changes, excludedChanges)) :
                              changesForUnchangedMoves(changes, excludedChanges)[c]
                                  \notin {changes[d], changes[i]}
        /\ \A i \in insertionIdxs : Cardinality(movesOfInsertion(i)) <= 1
\* Two deletions were paired, the first of them with the later and more
\* similar of two insertions that were both similar enough.
C16_SecondInsertionPreferred ==
    /\ pairingOver
    /\ Len(candidateMoves) = 2
    /\ candidateMoves[1].original.startLineNumber < candidateMoves[2].original.startLineNumber
    /\ candidateMoves[1].modified.startLineNumber > candidateMoves[2].modified.startLineNumber
    /\ \A d \in deletionIdxs : \A i \in insertionIdxs :
          similarityAboveThreshold(similarityOf(d, i))


\* computeUnchangedMoves has returned its moves (line 383).
unchangedMovesEmitted == pc \in {"join", "refineMoves", "return", "done"} /\ unchangedMoves # <<>>
searchedChanges ==
    {changesForUnchangedMoves(changes, excludedChanges)[c] :
        c \in 1..Len(changesForUnchangedMoves(changes, excludedChanges))}

\* C17: a move of computeUnchangedMoves has the same number of lines, three
\* or more, on both sides; its original lines are lines of one searched
\* change and its modified lines are lines of one searched change; and line
\* by line the trimmed original line and the trimmed modified line have the
\* same hash.
C17_UnchangedMovesAreUnchanged ==
    unchangedMovesEmitted =>
        \A j \in 1..Len(unchangedMoves) :
            LET m == unchangedMoves[j]
            IN  /\ LineRangeLength(m.original) = LineRangeLength(m.modified)
                /\ LineRangeLength(m.original) >= 3
                /\ \E c \in searchedChanges : LinesOf(m.original) \subseteq LinesOf(c.original)
                /\ \E c \in searchedChanges : LinesOf(m.modified) \subseteq LinesOf(c.modified)
                /\ \A k \in 0..(LineRangeLength(m.original) - 1) :
                      srcDocLinesOf(originalLines, modifiedLines)[m.original.startLineNumber + k]
                        = tgtDocLinesOf(originalLines, modifiedLines)[m.modified.startLineNumber + k]
\* A move of four lines: a possible mapping was extended after it was stored,
\* while another mapping of the same three modified lines was stored before
\* it and was not extended.
C17_ExtendedMappingEmitted ==
    /\ unchangedMovesEmitted
    /\ \E j \in 1..Len(unchangedMoves) : LineRangeLength(unchangedMoves[j].original) >= 4
    /\ \E a, b \in 1..Len(possibleMappings) :
          /\ a < b
          /\ possibleMappings[a].modifiedLineRange.startLineNumber
                = possibleMappings[b].modifiedLineRange.startLineNumber
          /\ LineRangeLength(possibleMappings[a].modifiedLineRange) = 3
          /\ LineRangeLength(possibleMappings[b].modifiedLineRange) >= 4

=============================================================================
